---- MODULE Spec2Model ----
(***************************************************************************)
(* Walrus data service: the daily scheduler (utils/scheduler.js), the TTL  *)
(* cache (utils/cache.js), the scraping pipeline and its two validators    *)
(* (scrapers/walrusScraper.js) and the GET /walrus-data route              *)
(* (routes/api.js).                                                        *)
(*                                                                         *)
(* Specifications:                                                         *)
(*   Spec      scheduler + requests + pipeline + cache (tracked key)       *)
(*   FairSpec  Spec with the fairness of the event loop                    *)
(*   SpecCache the cache alone, several keys, sized payloads               *)
(*   SpecVal   the two validators applied to enumerated records            *)
(*   SpecSan   the sanitizer applied to enumerated records                 *)
(*   SpecFallback  Spec with the second definition of the route            *)
(*   SpecScrape    one scrapeWalrusData call, scrapeFromUrl step by step   *)
(***************************************************************************)
EXTENDS Integers, Sequences, FiniteSets, TLC

VARIABLES
    cache,       \* Cache.cache: the entry Map, in insertion order
    timestamps,  \* Cache.timestamps: key -> time of the last set
    now,         \* Date.now(), in ticks (DayLen ticks per UTC day)
    isRunning,   \* WalrusScheduler.isRunning
    lastRun,     \* WalrusScheduler.lastRun (<<>> = null)
    nextRun,     \* WalrusScheduler.nextRun (<<>> = null)
    cronJob,     \* WalrusScheduler.cronJob: id of the task held (0 = none)
    jobs,        \* node-cron tasks created so far: id -> [running, firedAt]
    pipe,        \* one scrapeWalrusData run per owner (scheduler or request)
    resp,        \* last response of each request handler
    startObs,    \* what start() left behind when it returned
    burst,       \* performDailyScrape calls and scraper calls since the cycle in flight began,
                 \* and how the last cycle ended
    lastOp,      \* SpecCache: the last cache call and what it returned
    written,     \* SpecCache: the caller's last set of the probed key, while it stands
    input,       \* SpecVal: the record under validation
    output,      \* SpecVal: the validators' verdicts
    page,        \* SpecScrape: the scrapeFromUrl call in flight
    trail        \* SpecScrape: what the sources tried so far did, how the run settled

vars == <<cache, timestamps, now, isRunning, lastRun, nextRun, cronJob, jobs,
          pipe, resp, startObs, burst, lastOp, written, input, output, page, trail>>

cacheVars == <<cache, timestamps>>
schedVars == <<isRunning, lastRun, nextRun, cronJob, jobs, startObs, burst>>

----------------------------------------------------------------------------
(* Numbers.  JavaScript numbers are modelled in fixed point, in thousandths *)
(* (Num(11000) is 11000, Num(15) + 460 is 15.46), so that Math.floor and    *)
(* toFixed(2) are real conversions.  An optional value is a sequence of     *)
(* length 0 (null / undefined) or 1.                                        *)

Milli == 10 * 10 * 10

Num(n) == n * Milli

None == <<>>

Some(x) == <<x>>

Has(o) == o # <<>>

Val(o) == o[1]

\* x?.value && x?.value > 0   (undefined, null, 0 and negatives are falsy/false)
TruthyPositive(o) == Has(o) /\ Val(o) # 0 /\ Val(o) > 0

\* lo <= x?.value && x?.value <= hi   (a comparison with undefined is false)
InRange(o, lo, hi) == Has(o) /\ Val(o) >= lo /\ Val(o) <= hi

\* a truthy number: present and not 0
Truthy(o) == Has(o) /\ Val(o) # 0

----------------------------------------------------------------------------
(* Metrics records.  storagePrice, writePrice and epoch carry the optional  *)
(* .value / .number; storageCapacity is absent or an object with optional   *)
(* used, total and percentage.                                              *)

MkRecord(sp, wp, cap, ep, ds) ==
    [storagePrice |-> sp, writePrice |-> wp, storageCapacity |-> cap,
     epoch |-> ep, dataSource |-> ds]

MkCapacity(used, total, pct) == [used |-> used, total |-> total, percentage |-> pct]

CapField(data, f) ==
    IF Has(data.storageCapacity) THEN Val(data.storageCapacity)[f] ELSE None

\* the mutant of validateData: "at least 3" written as "more than 3"
validateData_OffByOne(data) ==
    LET hasStoragePrice == TruthyPositive(data.storagePrice)
        hasWritePrice == TruthyPositive(data.writePrice)
        hasStorageCapacity ==
            \/ Truthy(CapField(data, "used")) /\ Truthy(CapField(data, "total"))
            \/ TruthyPositive(CapField(data, "percentage"))
        hasEpoch == TruthyPositive(data.epoch)
        validFields == {f \in {<<1, hasStoragePrice>>, <<2, hasWritePrice>>,
                               <<3, hasStorageCapacity>>, <<4, hasEpoch>>} : f[2]}
        isRealTimeData == data.dataSource = "realtime"
    IN  IF isRealTimeData THEN Cardinality(validFields) >= 2
                          ELSE Cardinality(validFields) > 3

\* the mutant of validateData: the capacity counts with used or total alone
validateData_AnyCapacity(data) ==
    LET hasStoragePrice == TruthyPositive(data.storagePrice)
        hasWritePrice == TruthyPositive(data.writePrice)
        hasStorageCapacity ==
            \/ Truthy(CapField(data, "used")) \/ Truthy(CapField(data, "total"))
            \/ TruthyPositive(CapField(data, "percentage"))
        hasEpoch == TruthyPositive(data.epoch)
        validFields == {f \in {<<1, hasStoragePrice>>, <<2, hasWritePrice>>,
                               <<3, hasStorageCapacity>>, <<4, hasEpoch>>} : f[2]}
        isRealTimeData == data.dataSource = "realtime"
    IN  IF isRealTimeData THEN Cardinality(validFields) >= 2
                          ELSE Cardinality(validFields) >= 3

\* WalrusScraper.validateData: the loose check
validateData(data) ==
    LET hasStoragePrice == TruthyPositive(data.storagePrice)
        hasWritePrice == TruthyPositive(data.writePrice)
        hasStorageCapacity ==
            \/ Truthy(CapField(data, "used")) /\ Truthy(CapField(data, "total"))
            \/ TruthyPositive(CapField(data, "percentage"))
        hasEpoch == TruthyPositive(data.epoch)
        validFields == {f \in {<<1, hasStoragePrice>>, <<2, hasWritePrice>>,
                               <<3, hasStorageCapacity>>, <<4, hasEpoch>>} : f[2]}
        isRealTimeData == data.dataSource = "realtime"
    IN  IF isRealTimeData THEN Cardinality(validFields) >= 2
                          ELSE Cardinality(validFields) >= 3

\* a value that is not an object (null)
NullData == [isNull |-> TRUE]

IsObject(data) == "isNull" \notin DOMAIN data

\* the mutant of validateDataStrict: a percentage of 0 is refused
validateDataStrict_PositivePercentage(data) ==
    IF ~IsObject(data) THEN FALSE
    ELSE LET storageValid == InRange(data.storagePrice, Num(1000), Num(100000))
             writeValid == InRange(data.writePrice, Num(1000), Num(100000))
             capacityValid == InRange(CapField(data, "percentage"), 1, Num(100))
             epochValid == InRange(data.epoch, Num(1), Num(10000))
         IN  storageValid /\ writeValid /\ capacityValid /\ epochValid

\* WalrusScraper.validateDataStrict: the strict check
validateDataStrict(data) ==
    IF ~IsObject(data) THEN FALSE
    ELSE LET storageValid == InRange(data.storagePrice, Num(1000), Num(100000))
             writeValid == InRange(data.writePrice, Num(1000), Num(100000))
             capacityValid == InRange(CapField(data, "percentage"), Num(0), Num(100))
             epochValid == InRange(data.epoch, Num(1), Num(10000))
         IN  storageValid /\ writeValid /\ capacityValid /\ epochValid

----------------------------------------------------------------------------
(* Time.  One tick is 1/DayLen of a UTC day; midnights are the multiples of *)
(* DayLen.  The cache's TTLs are given in seconds, as in the code.          *)

DayLen == 3

MaxDays == 1

MaxTime == MaxDays * DayLen + 1

SecondsPerDay == 24 * 60 * 60

TickSeconds == SecondsPerDay \div DayLen

\* ttlSeconds * 1000 milliseconds, in ticks
TtlTicks(ttlSeconds) == ttlSeconds \div TickSeconds

IsMidnight(t) == t % DayLen = 0

----------------------------------------------------------------------------
(* Cache (utils/cache.js).  The entry Map is a sequence in insertion order: *)
(* Array.prototype.sort is stable, so both eviction orders break ties by    *)
(* insertion order.  A cache state is the pair of the two Maps.             *)

TRACKED == "walrus-data"

\* the count cap (this.maxSize, 50 in the code), scaled down
maxSize == 3

MB == 1024 * 1024

\* this.maxMemoryUsage
maxMemoryUsage == 100 * MB

\* the high-water mark of the memory monitor, in MB of process memory
HighWaterMB == 400

\* the scheduler's TTL for the tracked key
DailyTtlSeconds == 86400

CacheState(c, ts) == [cache |-> c, timestamps |-> ts]

NoTimestamps == [k \in {} |-> 0]

EmptyCache == CacheState(<<>>, NoTimestamps)

CacheKeys(S) == {S.cache[i].key : i \in 1..Len(S.cache)}

Find(S, key) ==
    IF key \in CacheKeys(S)
    THEN CHOOSE i \in 1..Len(S.cache) : S.cache[i].key = key
    ELSE 0

\* JSON.stringify(value).length: sized payloads carry their length, a metrics
\* record is a few dozen characters per field that is present
JsonLength(value) ==
    IF "len" \in DOMAIN value THEN value.len
    ELSE 96 + 48 * Cardinality({f \in {"storagePrice", "writePrice", "storageCapacity", "epoch"} :
                                    Has(value[f])})

\* Cache.estimateMemoryUsage
estimateMemoryUsage(value) == JsonLength(value) * 2

RECURSIVE SumSizes(_)
SumSizes(c) == IF c = <<>> THEN 0 ELSE c[1].size + SumSizes(Tail(c))

\* Cache.getCurrentMemoryUsage
getCurrentMemoryUsage(S) == SumSizes(S.cache)

\* the mutant of CacheDelete: the timestamp is left behind
CacheDelete_KeepsTimestamp(S, key) ==
    CacheState(SelectSeq(S.cache, LAMBDA e : e.key # key), S.timestamps)

\* Cache.delete
CacheDelete(S, key) ==
    CacheState(SelectSeq(S.cache, LAMBDA e : e.key # key),
               [k \in (DOMAIN S.timestamps) \ {key} |-> S.timestamps[k]])

\* Cache.clear
CacheClear(S) == EmptyCache

\* Array.prototype.sort on <<sort key, entry>> pairs: ascending and stable
RECURSIVE SortPairs(_)
SortPairs(s) ==
    IF s = <<>> THEN <<>>
    ELSE LET sorted == SortPairs(SubSeq(s, 1, Len(s) - 1))
             p == s[Len(s)]
             n == Cardinality({i \in 1..Len(sorted) : sorted[i][1] <= p[1]})
         IN  SubSeq(sorted, 1, n) \o <<p>> \o SubSeq(sorted, n + 1, Len(sorted))

RECURSIVE DeleteFirst(_, _, _)
DeleteFirst(S, sorted, n) ==
    IF n = 0 \/ sorted = <<>> THEN S
    ELSE DeleteFirst(CacheDelete(S, sorted[1][2].key), Tail(sorted), n - 1)

\* the mutant of evictOldestEntries: the sort is descending
evictOldestEntries_Newest(S, count) ==
    LET entries == SortPairs([i \in 1..Len(S.cache) |->
                                 <<0 - S.cache[i].lastAccess, S.cache[i]>>])
    IN  DeleteFirst(S, entries, count)

\* Cache.evictOldestEntries
evictOldestEntries(S, count) ==
    LET entries == SortPairs([i \in 1..Len(S.cache) |-> <<S.cache[i].lastAccess, S.cache[i]>>])
    IN  DeleteFirst(S, entries, count)

\* Cache.set, its first statement: the count cap
AfterCountCap(S) == IF Len(S.cache) >= maxSize THEN evictOldestEntries(S, 1) ELSE S

\* freedMemory >= currentMemory * 0.3
TargetReached(freedMemory, currentMemory) ==
    freedMemory >= (3 * currentMemory + 9) \div 10

RECURSIVE EvictLoop(_, _, _, _)
EvictLoop(S, sorted, freedMemory, currentMemory) ==
    IF sorted = <<>> \/ TargetReached(freedMemory, currentMemory) THEN S
    ELSE EvictLoop(CacheDelete(S, sorted[1][2].key), Tail(sorted),
                   freedMemory + sorted[1][2].size, currentMemory)

\* the mutant of evictByMemoryPressure: the most used entries go first
evictByMemoryPressure_MostUsedFirst(S) ==
    LET entries == SortPairs([i \in 1..Len(S.cache) |->
                                 <<0 - S.cache[i].accessCount, S.cache[i]>>])
    IN  EvictLoop(S, entries, 0, getCurrentMemoryUsage(S))

\* Cache.evictByMemoryPressure
evictByMemoryPressure(S) ==
    LET entries == SortPairs([i \in 1..Len(S.cache) |-> <<S.cache[i].accessCount, S.cache[i]>>])
    IN  EvictLoop(S, entries, 0, getCurrentMemoryUsage(S))

\* Map.prototype.set: an existing key keeps its position
MapSet(c, e) ==
    IF \E i \in 1..Len(c) : c[i].key = e.key
    THEN [i \in 1..Len(c) |-> IF c[i].key = e.key THEN e ELSE c[i]]
    ELSE Append(c, e)

MkEntry(key, value, expiresAt, size, t) ==
    [key |-> key, value |-> value, expiresAt |-> expiresAt, size |-> size,
     accessCount |-> 0, lastAccess |-> t]

\* the mutant of CacheSet: the count cap is checked with > instead of >=
CacheSet_CapOffByOne(S, key, value, ttlSeconds, t) ==
    LET S1 == IF Len(S.cache) > maxSize THEN evictOldestEntries(S, 1) ELSE S
        estimatedSize == estimateMemoryUsage(value)
        currentMemory == getCurrentMemoryUsage(S1)
        S2 == IF currentMemory + estimatedSize > maxMemoryUsage
              THEN evictByMemoryPressure(S1) ELSE S1
        expiresAt == t + TtlTicks(ttlSeconds)
    IN  CacheState(MapSet(S2.cache, MkEntry(key, value, expiresAt, estimatedSize, t)),
                   [k \in (DOMAIN S2.timestamps) \cup {key} |->
                        IF k = key THEN t ELSE S2.timestamps[k]])

\* Cache.set
CacheSet(S, key, value, ttlSeconds, t) ==
    LET S1 == IF Len(S.cache) >= maxSize THEN evictOldestEntries(S, 1) ELSE S
        estimatedSize == estimateMemoryUsage(value)
        currentMemory == getCurrentMemoryUsage(S1)
        S2 == IF currentMemory + estimatedSize > maxMemoryUsage
              THEN evictByMemoryPressure(S1) ELSE S1
        expiresAt == t + TtlTicks(ttlSeconds)
    IN  CacheState(MapSet(S2.cache, MkEntry(key, value, expiresAt, estimatedSize, t)),
                   [k \in (DOMAIN S2.timestamps) \cup {key} |->
                        IF k = key THEN t ELSE S2.timestamps[k]])

\* the mutant of CacheGetState: a hit also pushes expiresAt back
CacheGetState_SlidingExpiry(S, key, t) ==
    LET i == Find(S, key)
    IN  IF i = 0 THEN S
        ELSE IF t > S.cache[i].expiresAt THEN CacheDelete(S, key)
        ELSE CacheState([S.cache EXCEPT ![i].accessCount = @ + 1, ![i].lastAccess = t,
                                        ![i].expiresAt = @ + 1],
                        S.timestamps)

\* Cache.get: the cache state it leaves
CacheGetState(S, key, t) ==
    LET i == Find(S, key)
    IN  IF i = 0 THEN S
        ELSE IF t > S.cache[i].expiresAt THEN CacheDelete(S, key)
        ELSE CacheState([S.cache EXCEPT ![i].accessCount = @ + 1, ![i].lastAccess = t],
                        S.timestamps)

\* the mutant of CacheGetResult: the expiry test is inverted
CacheGetResult_Inverted(S, key, t) ==
    LET i == Find(S, key)
    IN  IF i = 0 THEN None
        ELSE IF t < S.cache[i].expiresAt THEN None
        ELSE Some(S.cache[i].value)

\* Cache.get: the value it returns (None = null)
CacheGetResult(S, key, t) ==
    LET i == Find(S, key)
    IN  IF i = 0 THEN None
        ELSE IF t > S.cache[i].expiresAt THEN None
        ELSE Some(S.cache[i].value)

\* Cache.has: item && Date.now() <= item.expiresAt
CacheHas(S, key, t) ==
    LET i == Find(S, key)
    IN  IF i = 0 THEN "undefined"
        ELSE IF t <= S.cache[i].expiresAt THEN "true" ELSE "false"

\* Cache.getTimestamp
getTimestamp(S, key) ==
    IF key \in DOMAIN S.timestamps THEN Some(S.timestamps[key]) ELSE None

----------------------------------------------------------------------------
(* SpecVal: the validators applied to every record of a bounded domain.     *)

PriceValues == {None, Some(0), Some(Num(0 - 100)), Some(Num(999)), Some(Num(1000)),
                Some(Num(100000)), Some(Num(100001))}

EpochValues == {None, Some(0), Some(Num(1)), Some(Num(10000)), Some(Num(10001))}

CapacityValues ==
    {None} \cup
    {Some(MkCapacity(u, t, p)) :
        u \in {None, Some(0), Some(Num(0 - 5)), Some(Num(644))},
        t \in {None, Some(Num(4167))},
        p \in {None, Some(0), Some(Num(15) + 460), Some(Num(100)), Some(Num(150))}}

SourceValues == {"realtime", "fallback", "unknown"}

ValRecords ==
    {MkRecord(sp, wp, cap, ep, ds) :
        sp \in PriceValues, wp \in PriceValues, cap \in CapacityValues,
        ep \in EpochValues, ds \in SourceValues}

NoVerdict == [done |-> FALSE, loose |-> FALSE, strict |-> FALSE]

\* both validators run on the record
Validate ==
    /\ ~output.done
    /\ output' = [done |-> TRUE, loose |-> validateData(input),
                  strict |-> validateDataStrict(input)]
    /\ UNCHANGED <<cache, timestamps, now, isRunning, lastRun, nextRun, cronJob, jobs,
                   pipe, resp, startObs, burst, lastOp, written, input, page, trail>>

----------------------------------------------------------------------------
(* SpecCache: callers drive the cache with several keys and sized payloads; *)
(* the memory monitor sweeps and time passes in between.                    *)

ExtraKeys == <<"k1", "k2", "k3", "k4", "k5", "k6">>

Keys == {TRACKED} \cup {ExtraKeys[i] : i \in 1..maxSize}

Payloads == {[id |-> 1, len |-> 10 * MB], [id |-> 2, len |-> 45 * MB]}

TtlChoices == {TickSeconds}

\* process.memoryUsage().rss, in bytes: at the mark, above it by less than half
\* a megabyte, above it by half a megabyte, above it by a megabyte
MemoryReadings == {HighWaterMB * MB, HighWaterMB * MB + 300 * 1024,
                   HighWaterMB * MB + MB \div 2, (HighWaterMB + 1) * MB}

CacheMaxTime == 2

MaxAccess == 1

\* the key whose reads are recorded in lastOp and whose last set by a caller is
\* remembered in written; the code treats all keys alike
PROBE == TRACKED

\* the key as lastOp records it
Seen(key) == IF key = PROBE THEN key ELSE "other"

NoOp == [op |-> "none", key |-> "other", value |-> None, has |-> "undefined",
         atCap |-> FALSE, held |-> 0]

Here == CacheState(cache, timestamps)

Become(S) == cache' = S.cache /\ timestamps' = S.timestamps

restOfCache == <<isRunning, lastRun, nextRun, cronJob, jobs, pipe, resp, startObs,
                 burst, input, output, page, trail>>

\* a caller's cache.set(key, value, ttlSeconds)
CSet(key, value, ttlSeconds) ==
    /\ Become(CacheSet(Here, key, value, ttlSeconds, now))
    /\ lastOp' = [NoOp EXCEPT !.op = "set", !.key = Seen(key),
                              !.atCap = Len(cache) >= maxSize /\ key \notin CacheKeys(Here)]
    /\ written' = IF key = PROBE
                  THEN Some([value |-> value, setAt |-> now, ttl |-> TtlTicks(ttlSeconds)])
                  ELSE written
    /\ UNCHANGED <<now>> /\ UNCHANGED restOfCache

\* a caller's cache.get(key)
CGet(key) ==
    /\ LET i == Find(Here, key)
       IN  IF i = 0 THEN TRUE
           ELSE cache[i].accessCount < MaxAccess \/ now > cache[i].expiresAt
    /\ Become(CacheGetState(Here, key, now))
    /\ lastOp' = [NoOp EXCEPT !.op = "get", !.key = Seen(key),
                              !.value = IF key = PROBE THEN CacheGetResult(Here, key, now)
                                        ELSE None]
    /\ UNCHANGED <<now, written>> /\ UNCHANGED restOfCache

\* a caller's cache.has(key)
CHas(key) ==
    /\ lastOp' = [NoOp EXCEPT !.op = "has", !.key = Seen(key),
                              !.has = IF key = PROBE THEN CacheHas(Here, key, now)
                                      ELSE "undefined"]
    /\ UNCHANGED <<cache, timestamps, now, written>> /\ UNCHANGED restOfCache

\* a caller's cache.delete(key)
CDelete(key) ==
    /\ Become(CacheDelete(Here, key))
    /\ lastOp' = [NoOp EXCEPT !.op = "delete", !.key = Seen(key)]
    /\ written' = IF key = PROBE THEN None ELSE written
    /\ UNCHANGED <<now>> /\ UNCHANGED restOfCache

\* a caller's cache.clear()
CClear ==
    /\ Become(CacheClear(Here))
    /\ lastOp' = [NoOp EXCEPT !.op = "clear"]
    /\ written' = None
    /\ UNCHANGED <<now>> /\ UNCHANGED restOfCache

\* Math.round(processMemory.rss / 1024 / 1024)
memoryMB(rss) == (2 * rss + MB) \div (2 * MB)

\* the mutant of MonitorState: the eviction also runs at the mark
MonitorState_AtMark(S, rss) ==
    IF memoryMB(rss) >= HighWaterMB THEN evictByMemoryPressure(S) ELSE S

\* Cache.startMemoryMonitoring: one firing of the interval callback
MonitorState(S, rss) ==
    IF memoryMB(rss) > HighWaterMB THEN evictByMemoryPressure(S) ELSE S

\* one firing of the monitor; lastOp keeps the number of entries it found
CSweep(rss) ==
    /\ Become(MonitorState(Here, rss))
    /\ lastOp' = [NoOp EXCEPT !.op = "sweep", !.held = Len(cache)]
    /\ UNCHANGED <<now, written>> /\ UNCHANGED restOfCache

CTick ==
    /\ now < CacheMaxTime
    /\ now' = now + 1
    /\ UNCHANGED <<cache, timestamps, lastOp, written>> /\ UNCHANGED restOfCache

----------------------------------------------------------------------------
(* The sanitizer of the route (routes/api.js).                              *)

\* Math.floor
Floor(x) == (x \div Milli) * Milli

\* parseFloat(x.toFixed(2)), for x >= 0
ToFixed2(x) == ((x + 5) \div 10) * 10

SanitizePrice(o) ==
    IF Truthy(o) /\ Val(o) > 0 /\ Val(o) < Num(1000000) THEN Some(Floor(Val(o))) ELSE None

SanitizeEpoch(o) ==
    IF Truthy(o) /\ Val(o) > 0 /\ Val(o) < Num(100000) THEN Some(Floor(Val(o))) ELSE None

SanitizeCapacity(cap) ==
    IF ~Has(cap) THEN None
    ELSE LET c == Val(cap)
         IN  Some(MkCapacity(
                 IF Has(c.used) /\ Val(c.used) >= 0 THEN Some(Floor(Val(c.used))) ELSE None,
                 IF Has(c.total) /\ Val(c.total) >= 0 THEN Some(Floor(Val(c.total))) ELSE None,
                 IF InRange(c.percentage, Num(0), Num(100))
                 THEN Some(ToFixed2(Val(c.percentage))) ELSE None))

\* validateAndSanitizeData (NullData = null)
validateAndSanitizeData(data) ==
    IF ~IsObject(data) THEN NullData
    ELSE MkRecord(SanitizePrice(data.storagePrice), SanitizePrice(data.writePrice),
                  SanitizeCapacity(data.storageCapacity), SanitizeEpoch(data.epoch),
                  IF data.dataSource \in {"realtime", "fallback", "cached"}
                  THEN data.dataSource ELSE "unknown")

----------------------------------------------------------------------------
(* SpecSan: the sanitizer applied, once and twice, to every record of a     *)
(* bounded domain: fractional, boundary and out-of-range values, a capacity *)
(* object without a valid sub-field, unrecognised provenance, null.         *)

SanPriceValues == {None, Some(500), Some(Num(1) + 500), Some(Num(500)), Some(Num(11000)),
                   Some(Num(1000000))}

SanEpochValues == {None, Some(500), Some(Num(150)), Some(Num(50000)), Some(Num(100000))}

SanCapacityValues ==
    {None} \cup
    {Some(MkCapacity(u, t, p)) :
        u \in {None, Some(Num(0 - 5)), Some(Num(644) + 700)},
        t \in {None, Some(Num(4167))},
        p \in {None, Some(Num(15) + 456), Some(Num(99) + 996), Some(Num(100) + 4)}}

\* a record without dataSource (undefined is falsy, as the empty string is)
Missing == ""

SanSourceValues == {"realtime", "fallback", "cached", "estimated", "bogus", Missing}

SanRecords ==
    {NullData} \cup
    {MkRecord(sp, wp, cap, ep, ds) :
        sp \in SanPriceValues, wp \in SanPriceValues, cap \in SanCapacityValues,
        ep \in SanEpochValues, ds \in SanSourceValues}

\* the sanitizer runs on the record, and again on its own output
Sanitize ==
    /\ ~output.done
    /\ output' = [done |-> TRUE, clean |-> validateAndSanitizeData(input),
                  twice |-> validateAndSanitizeData(validateAndSanitizeData(input))]
    /\ UNCHANGED <<cache, timestamps, now, isRunning, lastRun, nextRun, cronJob, jobs,
                   pipe, resp, startObs, burst, lastOp, written, input, page, trail>>

----------------------------------------------------------------------------
(* The extractor (the function scrapeFromUrl passes to page.evaluate).  A   *)
(* page is what the patterns can see of it: the matches in                  *)
(* document.body.innerText, in document order, and the elements whose       *)
(* textContent the second strategy looks at.  A number is kept as the page  *)
(* prints it, in its groups of digits between commas ("4,167" is <<4, 167>>)*)
(* so that parseInt is a real conversion.                                   *)

\* parseInt(s.replace(/,/g, ''))
RECURSIVE parseInt(_)
parseInt(groups) ==
    IF groups = <<>> THEN 0
    ELSE parseInt(SubSeq(groups, 1, Len(groups) - 1)) * 1000 + groups[Len(groups)]

\* "11,000 FROST / MB"
Price(display) == [kind |-> "price", display |-> display]

\* "644 / 4,167 TB"
Ratio(used, total) == [kind |-> "ratio", used |-> used, total |-> total]

\* "Epoch 150"
EpochText(n) == [kind |-> "epoch", number |-> n]

\* "15.2%" (the number in thousandths)
Percent(p) == [kind |-> "percent", percentage |-> p]

\* an element: the label its textContent includes, the first number and the
\* first decimal percentage in it
Element(label, number, percent) == [label |-> label, number |-> number, percent |-> percent]

\* a document without a body: document.body.innerText throws
NoBody == [body |-> FALSE, text |-> <<>>, elements |-> <<>>]

Document(text, elements) == [body |-> TRUE, text |-> text, elements |-> elements]

\* allText.match(pattern), all matches in document order
Matches(text, kind) == SelectSeq(text, LAMBDA t : t.kind = kind)

\* parseFloat(((usedTB / totalTB) * 100).toFixed(2)), for totalTB > 0
percentage(usedTB, totalTB) == ((2 * usedTB * 10000 + totalTB) \div (2 * totalTB)) * 10

\* the record the extractor starts from
InitialData == MkRecord(None, None, None, None, "realtime")

\* the mutant of PrimaryStrategy: both prices are read from the first match
PrimaryStrategy_FirstMatchTwice(data, text) ==
    LET allFrostMatches == Matches(text, "price")
        epochMatch == Matches(text, "epoch")
        storagePattern == Matches(text, "ratio")
        capacityMatch == Matches(text, "percent")
        found == Len(allFrostMatches) >= 2
    IN  MkRecord(
            IF found THEN Some(Num(parseInt(allFrostMatches[1].display)))
                     ELSE data.storagePrice,
            IF found THEN Some(Num(parseInt(allFrostMatches[1].display)))
                     ELSE data.writePrice,
            IF storagePattern # <<>>
            THEN LET usedTB == parseInt(storagePattern[1].used)
                     totalTB == parseInt(storagePattern[1].total)
                 IN  Some(MkCapacity(Some(Num(usedTB)), Some(Num(totalTB)),
                                     Some(percentage(usedTB, totalTB))))
            ELSE IF capacityMatch # <<>>
                 THEN Some(MkCapacity(None, None, Some(capacityMatch[1].percentage)))
                 ELSE data.storageCapacity,
            IF epochMatch # <<>> THEN Some(Num(epochMatch[1].number)) ELSE data.epoch,
            data.dataSource)

\* Strategy 1: the patterns over document.body.innerText
PrimaryStrategy(data, text) ==
    LET allFrostMatches == Matches(text, "price")
        epochMatch == Matches(text, "epoch")
        storagePattern == Matches(text, "ratio")
        capacityMatch == Matches(text, "percent")
        found == Len(allFrostMatches) >= 2
    IN  MkRecord(
            IF found THEN Some(Num(parseInt(allFrostMatches[1].display)))
                     ELSE data.storagePrice,
            IF found THEN Some(Num(parseInt(allFrostMatches[2].display)))
                     ELSE data.writePrice,
            IF storagePattern # <<>>
            THEN LET usedTB == parseInt(storagePattern[1].used)
                     totalTB == parseInt(storagePattern[1].total)
                 IN  Some(MkCapacity(Some(Num(usedTB)), Some(Num(totalTB)),
                                     Some(percentage(usedTB, totalTB))))
            ELSE IF capacityMatch # <<>>
                 THEN Some(MkCapacity(None, None, Some(capacityMatch[1].percentage)))
                 ELSE data.storageCapacity,
            IF epochMatch # <<>> THEN Some(Num(epochMatch[1].number)) ELSE data.epoch,
            data.dataSource)

\* frostElements.forEach: each element may give the price it is labelled with,
\* when that price is still unset
RECURSIVE forEachFrostElement(_, _)
forEachFrostElement(data, elements) ==
    IF elements = <<>> THEN data
    ELSE LET el == Head(elements)
             withStorage ==
                 IF el.label = "FROST/MiB/EPOCH" /\ ~Has(data.storagePrice) /\ Has(el.number)
                 THEN [data EXCEPT !.storagePrice = Some(Num(parseInt(Val(el.number))))]
                 ELSE data
             withWrite ==
                 IF el.label = "FROST/MiB" /\ ~Has(withStorage.writePrice) /\ Has(el.number)
                 THEN [withStorage EXCEPT !.writePrice = Some(Num(parseInt(Val(el.number))))]
                 ELSE withStorage
         IN  forEachFrostElement(withWrite, Tail(elements))

\* Strategy 2: the elements that mention FROST, then the first element with a
\* decimal percentage when no capacity was found
SecondaryStrategy(data, elements) ==
    LET priced == forEachFrostElement(data, elements)
        percentageElements == SelectSeq(elements, LAMBDA el : Has(el.percent))
    IN  IF ~Has(priced.storageCapacity) /\ percentageElements # <<>>
        THEN [priced EXCEPT !.storageCapacity =
                  Some(MkCapacity(None, None, Some(Val(percentageElements[1].percent))))]
        ELSE priced

\* the mutant of Repair: one missing price is enough
Repair_EitherPriceMissing(data) ==
    IF Has(data.storageCapacity) /\ (~Has(data.storagePrice) \/ ~Has(data.writePrice))
    THEN [data EXCEPT !.dataSource = "fallback",
                      !.storagePrice = Some(Num(11000)),
                      !.writePrice = Some(Num(20000))]
    ELSE data

\* the fallback after the strategies: a capacity without any price gets the
\* known prices
Repair(data) ==
    IF Has(data.storageCapacity) /\ ~Has(data.storagePrice) /\ ~Has(data.writePrice)
    THEN [data EXCEPT !.dataSource = "fallback",
                      !.storagePrice = Some(Num(11000)),
                      !.writePrice = Some(Num(20000))]
    ELSE data

(* SpecExtract: the extractor on every document of a bounded domain, one    *)
(* strategy at a time.                                                      *)

MaxText == 4

MaxElements == 2

TextTokens == {Price(<<11, 0>>), Price(<<20, 0>>), Ratio(<<644>>, <<4, 167>>),
               EpochText(150), Percent(Num(15) + 200)}

PageElements == {Element("FROST/MiB/EPOCH", Some(<<12, 500>>), None),
                 Element("FROST/MiB", Some(<<21, 0>>), None),
                 Element("FROST/MiB", None, None),
                 Element("none", None, Some(Num(15) + 460))}

SeqsUpTo(S, n) == UNION {[1..k -> S] : k \in 0..n}

Documents ==
    {NoBody} \cup
    {Document(text, elements) :
        text \in SeqsUpTo(TextTokens, MaxText),
        elements \in SeqsUpTo(PageElements, MaxElements)}

Extracting(stage, data) == [done |-> FALSE, stage |-> stage, data |-> data]

\* line 166 throws into the catch block, or the first strategy runs
ExtractPrimary ==
    /\ output = NoVerdict
    /\ output' = IF input.body
                 THEN Extracting("primary", PrimaryStrategy(InitialData, input.text))
                 ELSE Extracting("caught", InitialData)
    /\ UNCHANGED <<cache, timestamps, now, isRunning, lastRun, nextRun, cronJob, jobs,
                   pipe, resp, startObs, burst, lastOp, written, input, page, trail>>

ExtractSecondary ==
    /\ output # NoVerdict
    /\ output.stage = "primary"
    /\ output' = Extracting("secondary", SecondaryStrategy(output.data, input.elements))
    /\ UNCHANGED <<cache, timestamps, now, isRunning, lastRun, nextRun, cronJob, jobs,
                   pipe, resp, startObs, burst, lastOp, written, input, page, trail>>

\* the repair and return data
ExtractRepair ==
    /\ output # NoVerdict
    /\ output.stage \in {"secondary", "caught"}
    /\ output' = [done |-> TRUE, stage |-> "returned", data |-> Repair(output.data)]
    /\ UNCHANGED <<cache, timestamps, now, isRunning, lastRun, nextRun, cronJob, jobs,
                   pipe, resp, startObs, burst, lastOp, written, input, page, trail>>

----------------------------------------------------------------------------
(* The pipeline (WalrusScraper.scrapeWalrusData).  Every owner (a scheduler *)
(* cycle, a request handler) has its own run; a run is suspended at each    *)
(* await: the browser launch, each source, the browser close.               *)

\* owner 0 is the scheduler's cycle, owners 1..NumReqs are request handlers
SCHED == 0

NumReqs == 1

Reqs == 1..NumReqs

Owners == {SCHED} \cup Reqs

\* this.urls.length
NumUrls == 2

FullCapacity == Some(MkCapacity(Some(Num(644)), Some(Num(4167)), Some(Num(15) + 460)))

PercentOnly == Some(MkCapacity(None, None, Some(Num(15) + 460)))

\* what the extractor may hand back for a page
RecFull == MkRecord(Some(Num(11000)), Some(Num(20000)), FullCapacity, Some(Num(150)), "realtime")

RecFallback == MkRecord(Some(Num(11000)), Some(Num(20000)), PercentOnly, None, "fallback")

RecEmpty == MkRecord(None, None, None, None, "realtime")

PageRecords == {RecFull, RecFallback, RecEmpty}

IdleRun == [pc |-> "idle", i |-> 0, result |-> None, browser |-> FALSE, by |-> "none"]

\* scrapeWalrusData is called: it runs up to the await of puppeteer.launch
StartedRun(by) == [IdleRun EXCEPT !.pc = "launch", !.by = by]

InFlight(o) == pipe[o].pc # "idle"

\* puppeteer.launch resolves
Launch(o) ==
    /\ pipe[o].pc = "launch"
    /\ pipe' = [pipe EXCEPT ![o].pc = "source", ![o].i = 1, ![o].browser = TRUE]
    /\ UNCHANGED <<cache, timestamps, now, resp, lastOp, written, input, output, page, trail>>
    /\ UNCHANGED schedVars

\* the mutant of NextSource: the loop gives up at the first source that fails
NextSource_GiveUp(run) == [run EXCEPT !.pc = "close", !.result = None]

\* the for loop after source i: the next source, or "All URLs failed"
NextSource(run) ==
    IF run.i < NumUrls THEN [run EXCEPT !.i = @ + 1]
    ELSE [run EXCEPT !.pc = "close", !.result = None]

\* one turn of the for loop with a source that yields data
SourceYields(run, data) ==
    IF validateData(data) THEN [run EXCEPT !.pc = "close", !.result = Some(data)]
    ELSE NextSource(run)

\* scrapeFromUrl settles for source i: it throws, or it returns a record
Source(o) ==
    /\ pipe[o].pc = "source"
    /\ \/ pipe' = [pipe EXCEPT ![o] = NextSource(pipe[o])]
       \/ \E data \in PageRecords : pipe' = [pipe EXCEPT ![o] = SourceYields(pipe[o], data)]
    /\ UNCHANGED <<cache, timestamps, now, resp, lastOp, written, input, output, page, trail>>
    /\ UNCHANGED schedVars

\* how a suspended run can settle: the launch rejects (null is returned), or
\* the browser closes (the result is returned) or browser.close rejects in
\* the finally block (the run throws)
Outcomes(run) ==
    IF run.pc = "launch" THEN {[kind |-> "returned", result |-> None]}
    ELSE IF run.pc = "close"
         THEN {[kind |-> "returned", result |-> run.result],
               [kind |-> "threw", result |-> None]}
    ELSE {}

----------------------------------------------------------------------------
(* The scheduler (utils/scheduler.js).                                      *)

MaxStarts == 1

\* the mutant of NextMidnight: the day is not advanced
NextMidnight_Today(t) == (t \div DayLen) * DayLen

\* setUTCDate(getUTCDate() + 1); setUTCHours(0, 0, 0, 0)
NextMidnight(t) == (t \div DayLen + 1) * DayLen

\* updateNextRunTime
updateNextRunTime == nextRun' = Some(NextMidnight(now))

\* the mutant of PerformDailyScrapeBegin: the isRunning guard is missing
PerformDailyScrapeBegin_NoGuard(S, by) ==
    /\ isRunning' = TRUE
    /\ lastRun' = Some(now)
    /\ Become(CacheDelete(S, TRACKED))
    /\ pipe' = [pipe EXCEPT ![SCHED] = StartedRun(by)]
    /\ burst' = [burst EXCEPT !.triggers = @ + 1, !.scrapes = @ + 1]

\* the mutant of PerformDailyScrapeBegin: lastRun is stamped before the guard
PerformDailyScrapeBegin_StampFirst(S, by) ==
    IF isRunning
    THEN /\ UNCHANGED <<isRunning, pipe>>
         /\ lastRun' = Some(now)
         /\ Become(S)
         /\ burst' = [burst EXCEPT !.triggers = @ + 1]
    ELSE /\ isRunning' = TRUE
         /\ lastRun' = Some(now)
         /\ Become(CacheDelete(S, TRACKED))
         /\ pipe' = [pipe EXCEPT ![SCHED] = StartedRun(by)]
         /\ burst' = [burst EXCEPT !.triggers = @ + 1, !.scrapes = @ + 1]

\* the mutant of PerformDailyScrapeBegin: the cached value is not deleted
PerformDailyScrapeBegin_NoDelete(S, by) ==
    IF isRunning
    THEN /\ UNCHANGED <<isRunning, lastRun, pipe>>
         /\ Become(S)
         /\ burst' = [burst EXCEPT !.triggers = @ + 1]
    ELSE /\ isRunning' = TRUE
         /\ lastRun' = Some(now)
         /\ Become(S)
         /\ pipe' = [pipe EXCEPT ![SCHED] = StartedRun(by)]
         /\ burst' = [burst EXCEPT !.triggers = @ + 1, !.scrapes = @ + 1]

\* the mutant of PerformDailyScrapeBegin: lastRun is not stamped
PerformDailyScrapeBegin_NoStamp(S, by) ==
    IF isRunning
    THEN /\ UNCHANGED <<isRunning, lastRun, pipe>>
         /\ Become(S)
         /\ burst' = [burst EXCEPT !.triggers = @ + 1]
    ELSE /\ isRunning' = TRUE
         /\ UNCHANGED lastRun
         /\ Become(CacheDelete(S, TRACKED))
         /\ pipe' = [pipe EXCEPT ![SCHED] = StartedRun(by)]
         /\ burst' = [burst EXCEPT !.triggers = @ + 1, !.scrapes = @ + 1]

\* performDailyScrape up to its first await, on the cache state S
PerformDailyScrapeBegin(S, by) ==
    IF isRunning
    THEN /\ UNCHANGED <<isRunning, lastRun, pipe>>
         /\ Become(S)
         /\ burst' = [burst EXCEPT !.triggers = @ + 1]
    ELSE /\ isRunning' = TRUE
         /\ lastRun' = Some(now)
         /\ Become(CacheDelete(S, TRACKED))
         /\ pipe' = [pipe EXCEPT ![SCHED] = StartedRun(by)]
         /\ burst' = [burst EXCEPT !.triggers = @ + 1, !.scrapes = @ + 1]

\* how a cycle ended: with a record, with nothing (null), or with an exception
Ended(outcome) ==
    IF outcome.kind = "threw" THEN "threw"
    ELSE IF Has(outcome.result) THEN "record" ELSE "nothing"

\* stop() has been called and no cron task is left running
TriggerCancelled == cronJob # 0 /\ \A j \in 1..Len(jobs) : ~jobs[j].running

\* the counters after a cycle: nothing pending, how the cycle ended, how many
\* performDailyScrape calls it dropped, how the promise of performDailyScrape
\* settled (the catch block swallows the exception of the scraper call), and
\* whether the trigger had been cancelled by the time the cycle ended
EndedBurst(outcome) ==
    [triggers |-> 0, scrapes |-> 0, ended |-> Ended(outcome),
     dropped |-> burst.triggers - 1, settled |-> "resolved",
     stoppedAtEnd |-> TriggerCancelled]

\* the mutant of PerformDailyScrapeEnd: the cleanup is not in a finally block
PerformDailyScrapeEnd_NoFinally(outcome) ==
    /\ IF outcome.kind = "returned" /\ Has(outcome.result)
       THEN Become(CacheSet(Here, TRACKED, Val(outcome.result), DailyTtlSeconds, now))
       ELSE UNCHANGED cacheVars
    /\ IF outcome.kind = "threw"
       THEN UNCHANGED <<isRunning, nextRun>>
       ELSE isRunning' = FALSE /\ updateNextRunTime
    /\ pipe' = [pipe EXCEPT ![SCHED] = IdleRun]
    /\ burst' = EndedBurst(outcome)

\* the mutant of PerformDailyScrapeEnd: there is no catch block
PerformDailyScrapeEnd_NoCatch(outcome) ==
    /\ IF outcome.kind = "returned" /\ Has(outcome.result)
       THEN Become(CacheSet(Here, TRACKED, Val(outcome.result), DailyTtlSeconds, now))
       ELSE UNCHANGED cacheVars
    /\ isRunning' = FALSE
    /\ updateNextRunTime
    /\ pipe' = [pipe EXCEPT ![SCHED] = IdleRun]
    /\ burst' = [EndedBurst(outcome) EXCEPT
                     !.settled = IF outcome.kind = "threw" THEN "rejected" ELSE "resolved"]

\* performDailyScrape after the await: the try body, catch and finally
PerformDailyScrapeEnd(outcome) ==
    /\ IF outcome.kind = "returned" /\ Has(outcome.result)
       THEN Become(CacheSet(Here, TRACKED, Val(outcome.result), DailyTtlSeconds, now))
       ELSE UNCHANGED cacheVars
    /\ isRunning' = FALSE
    /\ updateNextRunTime
    /\ pipe' = [pipe EXCEPT ![SCHED] = IdleRun]
    /\ burst' = EndedBurst(outcome)

\* the scraper call of the cycle in flight settles
SchedFinish ==
    /\ \E outcome \in Outcomes(pipe[SCHED]) : PerformDailyScrapeEnd(outcome)
    /\ UNCHANGED <<now, lastRun, cronJob, jobs, startObs, resp, lastOp, written, input, output, page, trail>>

\* a hit of cache.get counts an access; the counter is capped in the model
GetAllowed ==
    LET i == Find(Here, TRACKED)
    IN  IF i = 0 THEN TRUE
        ELSE cache[i].accessCount < MaxAccess \/ now > cache[i].expiresAt

\* the mutant of PerformInitialScrapeIfNeeded: the bootstrap is skipped
PerformInitialScrapeIfNeeded_Never ==
    /\ Become(CacheGetState(Here, TRACKED, now))
    /\ UNCHANGED <<isRunning, lastRun, pipe, burst>>

\* performInitialScrapeIfNeeded up to its first await
PerformInitialScrapeIfNeeded ==
    LET cachedData == CacheGetResult(Here, TRACKED, now)
        S == CacheGetState(Here, TRACKED, now)
    IN  IF ~Has(cachedData)
        THEN PerformDailyScrapeBegin(S, "bootstrap")
        ELSE Become(S) /\ UNCHANGED <<isRunning, lastRun, pipe, burst>>

\* start(), called while fewer than limit calls were made: cron.schedule
\* registers a task of its own at every call and this.cronJob refers to the
\* latest, then updateNextRunTime, performInitialScrapeIfNeeded (not awaited),
\* verifyScheduling; startObs is the state at its return
StartCall(limit) ==
    /\ Len(jobs) < limit
    /\ GetAllowed
    /\ jobs' = Append(jobs, [running |-> TRUE, firedAt |-> now])
    /\ cronJob' = Len(jobs) + 1
    /\ updateNextRunTime
    /\ PerformInitialScrapeIfNeeded
    /\ startObs' = [called |-> TRUE,
                    emptyAtCall |-> ~Has(CacheGetResult(Here, TRACKED, now)),
                    isRunning |-> isRunning', lastRun |-> lastRun',
                    inFlight |-> pipe'[SCHED].pc # "idle",
                    busyAtCall |-> isRunning]
    /\ UNCHANGED <<now, resp, lastOp, written, input, output, page, trail>>

\* start(), called once in the life of the process (server.js)
Start == StartCall(MaxStarts)

\* start(), called again by whoever holds the scheduler
MaxStartCalls == 2

StartAgain == StartCall(MaxStartCalls)

\* the mutant of Stop: stop() also abandons the cycle in flight
Stop_AbortsCycle ==
    /\ cronJob # 0
    /\ jobs[cronJob].running
    /\ jobs' = [jobs EXCEPT ![cronJob].running = FALSE]
    /\ isRunning' = FALSE
    /\ pipe' = [pipe EXCEPT ![SCHED] = IdleRun]
    /\ UNCHANGED <<cache, timestamps, now, lastRun, nextRun, cronJob, resp,
                   startObs, burst, lastOp, written, input, output, page, trail>>

\* stop()
Stop ==
    /\ cronJob # 0
    /\ jobs[cronJob].running
    /\ jobs' = [jobs EXCEPT ![cronJob].running = FALSE]
    /\ UNCHANGED <<cache, timestamps, now, isRunning, lastRun, nextRun, cronJob, pipe, resp,
                   startObs, burst, lastOp, written, input, output, page, trail>>

\* a running task is due: it is 00:00 UTC and the task has not fired for it
Due(j) == jobs[j].running /\ IsMidnight(now) /\ jobs[j].firedAt # now

\* the cron callback of task j at 00:00:00 UTC
CronFire(j) ==
    /\ Due(j)
    /\ jobs' = [jobs EXCEPT ![j].firedAt = now]
    /\ PerformDailyScrapeBegin(Here, "cron")
    /\ UNCHANGED <<now, nextRun, cronJob, startObs, resp, lastOp, written, input, output, page, trail>>

----------------------------------------------------------------------------
(* GET /walrus-data (routes/api.js).                                        *)

NoResponse == [req |-> 0, status |-> 0, source |-> "none", data |-> None]

\* the handler up to its first await: a cache hit is answered at once, a miss
\* calls the scraper
ReqBegin(r) ==
    /\ ~InFlight(r)
    /\ GetAllowed
    /\ LET cachedData == CacheGetResult(Here, TRACKED, now)
       IN  /\ Become(CacheGetState(Here, TRACKED, now))
           /\ IF Has(cachedData)
              THEN /\ resp' = [req |-> r, status |-> 200, source |-> "cache",
                               data |-> Some(validateAndSanitizeData(Val(cachedData)))]
                   /\ pipe' = pipe
              ELSE /\ resp' = resp
                   /\ pipe' = [pipe EXCEPT ![r] = StartedRun("request")]
    /\ UNCHANGED <<now, lastOp, written, input, output, page, trail>>
    /\ UNCHANGED schedVars

\* the handler after the await of scrapeWalrusData
ReqEnd(r, outcome) ==
    LET freshData == IF Has(outcome.result)
                     THEN validateAndSanitizeData(Val(outcome.result)) ELSE NullData
    IN  /\ pipe' = [pipe EXCEPT ![r] = IdleRun]
        /\ IF outcome.kind = "threw"
           THEN /\ resp' = [req |-> r, status |-> 500, source |-> "none", data |-> None]
                /\ UNCHANGED cacheVars
           ELSE IF Has(outcome.result) /\ IsObject(freshData) /\ validateDataStrict(freshData)
           THEN /\ Become(CacheSet(Here, TRACKED, freshData, DailyTtlSeconds, now))
                /\ resp' = [req |-> r, status |-> 200, source |-> "fresh",
                            data |-> Some(freshData)]
           ELSE /\ resp' = [req |-> r, status |-> 503, source |-> "none", data |-> None]
                /\ UNCHANGED cacheVars

ReqFinish(r) ==
    /\ \E outcome \in Outcomes(pipe[r]) : ReqEnd(r, outcome)
    /\ UNCHANGED <<now, lastOp, written, input, output, page, trail>>
    /\ UNCHANGED schedVars

\* routes/api.js holds a second definition of the route, whose handler differs
\* after the scrape: when no fresh record passes, it answers with a constant
\* record and caches it for an hour
FallbackTtlSeconds == 3600

fallbackData ==
    MkRecord(Some(Num(11000)), Some(Num(20000)), FullCapacity, Some(Num(150)), "fallback")

\* the second handler after the await of scrapeWalrusData
ReqEndFallback(r, outcome) ==
    LET freshData == IF Has(outcome.result)
                     THEN validateAndSanitizeData(Val(outcome.result)) ELSE NullData
    IN  /\ pipe' = [pipe EXCEPT ![r] = IdleRun]
        /\ IF outcome.kind = "threw"
           THEN /\ resp' = [req |-> r, status |-> 500, source |-> "none", data |-> None]
                /\ UNCHANGED cacheVars
           ELSE IF Has(outcome.result) /\ IsObject(freshData) /\ validateDataStrict(freshData)
           THEN /\ Become(CacheSet(Here, TRACKED, freshData, DailyTtlSeconds, now))
                /\ resp' = [req |-> r, status |-> 200, source |-> "fresh",
                            data |-> Some(freshData)]
           ELSE /\ Become(CacheSet(Here, TRACKED, fallbackData, FallbackTtlSeconds, now))
                /\ resp' = [req |-> r, status |-> 200, source |-> "fallback",
                            data |-> Some(fallbackData)]

ReqFinishFallback(r) ==
    /\ \E outcome \in Outcomes(pipe[r]) : ReqEndFallback(r, outcome)
    /\ UNCHANGED <<now, lastOp, written, input, output, page, trail>>
    /\ UNCHANGED schedVars

\* GET /last-update: cacheStatus (a timestamp is a Date.now() value, never 0)
cacheStatus(S) == IF Has(getTimestamp(S, TRACKED)) THEN "active" ELSE "empty"

----------------------------------------------------------------------------
(* SpecScrape: one scrapeWalrusData call, made in the slot of the           *)
(* scheduler's cycle with no scheduler acting, in which scrapeFromUrl is    *)
(* followed await by await: newPage, the page setup, the navigation with    *)
(* its retries, the wait for content, the extraction, page.close.           *)

\* let retries = 3
NavRetries == 3

\* setTimeout(resolve, 2000) between two navigation attempts, in milliseconds
BackoffMs == 2000

NoPending == [kind |-> "none", data |-> None, cause |-> "none"]

\* no scrapeFromUrl call in flight
NoPage == [pc |-> "none", retries |-> 0, gotoCalls |-> 0, waitedMs |-> 0,
           contentTimedOut |-> FALSE, evaluated |-> FALSE, pending |-> NoPending]

\* what the call has done so far; openPages counts the pages that newPage
\* opened and no close has closed, browserLeftOpen tells that the call settled
\* with its browser still open
NoTrail == [tried |-> <<>>, settled |-> "none", at |-> "none", result |-> None,
            openPages |-> 0, browserLeftOpen |-> FALSE]

\* what is kept of a scrapeFromUrl call when the loop over the sources has
\* dealt with it
Tried(outcome, cause) ==
    [outcome |-> outcome, cause |-> cause, gotoCalls |-> page.gotoCalls,
     waitedMs |-> page.waitedMs, contentTimedOut |-> page.contentTimedOut,
     evaluated |-> page.evaluated]

restOfScrape == <<cache, timestamps, now, resp, lastOp, written, input, output>>

\* scrapeWalrusData is called
ScrapeCall ==
    /\ ~InFlight(SCHED)
    /\ trail.settled = "none"
    /\ pipe' = [pipe EXCEPT ![SCHED] = StartedRun("direct")]
    /\ UNCHANGED <<page, trail>> /\ UNCHANGED restOfScrape /\ UNCHANGED schedVars

\* scrapeFromUrl threw, leaving openPages pages open: the catch block of the
\* loop, continue
SourceFailed(cause, openPages) ==
    /\ pipe' = [pipe EXCEPT ![SCHED] = NextSource(pipe[SCHED])]
    /\ trail' = [trail EXCEPT !.tried = Append(@, Tried("failed", cause)),
                              !.openPages = openPages]
    /\ page' = NoPage

\* scrapeFromUrl returned data: if (data && this.validateData(data)) return data
SourceReturned(data, openPages) ==
    /\ pipe' = [pipe EXCEPT ![SCHED] = SourceYields(pipe[SCHED], data)]
    /\ trail' = [trail EXCEPT !.tried =
                    Append(@, Tried(IF validateData(data) THEN "accepted" ELSE "rejected",
                                    "none")),
                              !.openPages = openPages]
    /\ page' = NoPage

\* the try block of scrapeFromUrl is left: the finally block awaits page.close
Leave(kind, data, cause) ==
    page' = [page EXCEPT !.pc = "closing",
                         !.pending = [kind |-> kind, data |-> data, cause |-> cause]]

\* await browser.newPage(): it resolves with a page that is open, or it rejects
\* outside the try block
NewPage ==
    /\ pipe[SCHED].pc = "source" /\ page.pc = "none"
    /\ \/ /\ page' = [NoPage EXCEPT !.pc = "setup"]
          /\ trail' = [trail EXCEPT !.openPages = @ + 1]
          /\ UNCHANGED pipe
       \/ SourceFailed("newPage", trail.openPages)
    /\ UNCHANGED restOfScrape /\ UNCHANGED schedVars

\* await page.setViewport, await page.setUserAgent, let retries = 3
Setup ==
    /\ page.pc = "setup"
    /\ \/ page' = [page EXCEPT !.pc = "goto", !.retries = NavRetries]
       \/ Leave("throw", None, "setup")
    /\ UNCHANGED <<pipe, trail>> /\ UNCHANGED restOfScrape /\ UNCHANGED schedVars

\* page.goto rejects: retries--; if (retries === 0) throw error; else wait
GotoRejects ==
    IF page.retries - 1 = 0
    THEN page' = [page EXCEPT !.gotoCalls = @ + 1, !.retries = @ - 1, !.pc = "closing",
                              !.pending = [kind |-> "throw", data |-> None,
                                           cause |-> "navigation"]]
    ELSE page' = [page EXCEPT !.gotoCalls = @ + 1, !.retries = @ - 1, !.pc = "backoff"]

\* one turn of while (retries > 0): await page.goto resolves (break) or rejects
Goto ==
    /\ page.pc = "goto" /\ page.retries > 0
    /\ \/ page' = [page EXCEPT !.gotoCalls = @ + 1, !.pc = "content"]
       \/ GotoRejects
    /\ UNCHANGED <<pipe, trail>> /\ UNCHANGED restOfScrape /\ UNCHANGED schedVars

\* the 2-second wait of the catch block is over
Backoff ==
    /\ page.pc = "backoff"
    /\ page' = [page EXCEPT !.waitedMs = @ + BackoffMs, !.pc = "goto"]
    /\ UNCHANGED <<pipe, trail>> /\ UNCHANGED restOfScrape /\ UNCHANGED schedVars

\* the mutant of ContentWaitOver: a timeout of the wait is thrown on
ContentWaitOver_TimeoutThrows(timedOut) ==
    IF timedOut
    THEN page' = [page EXCEPT !.contentTimedOut = TRUE, !.pc = "closing",
                              !.pending = [kind |-> "throw", data |-> None,
                                           cause |-> "content"]]
    ELSE page' = [page EXCEPT !.pc = "settle"]

\* await page.waitForFunction in its own try / catch: the rejection is logged
ContentWaitOver(timedOut) ==
    page' = [page EXCEPT !.contentTimedOut = timedOut, !.pc = "settle"]

\* the wait for content resolves, or times out after 15 seconds
WaitForFunction ==
    /\ page.pc = "content"
    /\ \E timedOut \in BOOLEAN : ContentWaitOver(timedOut)
    /\ UNCHANGED <<pipe, trail>> /\ UNCHANGED restOfScrape /\ UNCHANGED schedVars

\* the additional 3-second wait is over
ExtraWait ==
    /\ page.pc = "settle"
    /\ page' = [page EXCEPT !.pc = "evaluate"]
    /\ UNCHANGED <<pipe, trail>> /\ UNCHANGED restOfScrape /\ UNCHANGED schedVars

\* await page.evaluate: the extractor returns its record, or the call rejects
Evaluate ==
    /\ page.pc = "evaluate"
    /\ \/ \E data \in PageRecords :
              page' = [page EXCEPT !.evaluated = TRUE, !.pc = "closing",
                                   !.pending = [kind |-> "return", data |-> Some(data),
                                                cause |-> "none"]]
       \/ page' = [page EXCEPT !.evaluated = TRUE, !.pc = "closing",
                               !.pending = [kind |-> "throw", data |-> None,
                                            cause |-> "evaluate"]]
    /\ UNCHANGED <<pipe, trail>> /\ UNCHANGED restOfScrape /\ UNCHANGED schedVars

\* finally { await page.close() }: it resolves, the page is closed and the try
\* block's completion stands, or it rejects, the rejection replaces the
\* completion and the page is closed or still open
PageClose ==
    /\ page.pc = "closing"
    /\ \/ IF page.pending.kind = "return"
          THEN SourceReturned(Val(page.pending.data), trail.openPages - 1)
          ELSE SourceFailed(page.pending.cause, trail.openPages - 1)
       \/ \E openPages \in {trail.openPages - 1, trail.openPages} :
              SourceFailed("close", openPages)
    /\ UNCHANGED restOfScrape /\ UNCHANGED schedVars

\* what is open when the call settles: nothing when browser.close resolved, as
\* a browser closes its pages, or when no browser was launched; the browser or
\* nothing when browser.close rejected
LeftOpen(outcome) == IF outcome.kind = "threw" THEN BOOLEAN ELSE {FALSE}

\* the scrapeWalrusData call settles
ScrapeSettle ==
    /\ \E outcome \in Outcomes(pipe[SCHED]) : \E left \in LeftOpen(outcome) :
           trail' = [trail EXCEPT !.settled = Ended(outcome), !.at = pipe[SCHED].pc,
                                  !.result = outcome.result,
                                  !.browserLeftOpen = left,
                                  !.openPages = IF left THEN @ ELSE 0]
    /\ pipe' = [pipe EXCEPT ![SCHED] = IdleRun]
    /\ UNCHANGED page /\ UNCHANGED restOfScrape /\ UNCHANGED schedVars

----------------------------------------------------------------------------
(* The memory monitor and the clock.                                        *)

Sweep ==
    /\ \E rss \in MemoryReadings : Become(MonitorState(Here, rss))
    /\ UNCHANGED <<now, pipe, resp, lastOp, written, input, output, page, trail>>
    /\ UNCHANGED schedVars

\* time passes; a task that is due fires before the clock moves on
Tick ==
    /\ now < MaxTime
    /\ \A j \in 1..Len(jobs) : ~Due(j)
    /\ now' = now + 1
    /\ UNCHANGED <<cache, timestamps, pipe, resp, lastOp, written, input, output, page, trail>>
    /\ UNCHANGED schedVars

----------------------------------------------------------------------------
(* Specifications.                                                          *)

\* the state after construction, but for the clock and the validators' input
InitBase ==
    /\ cache = <<>>
    /\ timestamps = NoTimestamps
    /\ isRunning = FALSE
    /\ lastRun = None
    /\ nextRun = None
    /\ cronJob = 0
    /\ jobs = <<>>
    /\ pipe = [o \in Owners |-> IdleRun]
    /\ resp = NoResponse
    /\ startObs = [called |-> FALSE, emptyAtCall |-> FALSE, isRunning |-> FALSE,
                   lastRun |-> None, inFlight |-> FALSE, busyAtCall |-> FALSE]
    /\ burst = [triggers |-> 0, scrapes |-> 0, ended |-> "none", dropped |-> 0,
                 settled |-> "none", stoppedAtEnd |-> FALSE]
    /\ lastOp = NoOp
    /\ output = NoVerdict
    /\ page = NoPage
    /\ trail = NoTrail

\* the process may come up at any time of the day
Init ==
    /\ InitBase
    /\ now \in 0..(DayLen - 1)
    /\ written = None
    /\ input = RecEmpty

Next ==
    \/ Start
    \/ Stop
    \/ \E j \in 1..Len(jobs) : CronFire(j)
    \/ \E o \in Owners : Launch(o)
    \/ \E o \in Owners : Source(o)
    \/ SchedFinish
    \/ \E r \in Reqs : ReqBegin(r)
    \/ \E r \in Reqs : ReqFinish(r)
    \/ Sweep
    \/ Tick

Spec == Init /\ [][Next]_vars

\* the event loop runs every settled await: a run that can go on does
FairSpec ==
    /\ Spec
    /\ WF_vars(Launch(SCHED))
    /\ WF_vars(Source(SCHED))
    /\ WF_vars(SchedFinish)

\* the server with the second definition of the route
NextFallback ==
    \/ Start
    \/ Stop
    \/ \E j \in 1..Len(jobs) : CronFire(j)
    \/ \E o \in Owners : Launch(o)
    \/ \E o \in Owners : Source(o)
    \/ SchedFinish
    \/ \E r \in Reqs : ReqBegin(r)
    \/ \E r \in Reqs : ReqFinishFallback(r)
    \/ Sweep
    \/ Tick

SpecFallback == Init /\ [][NextFallback]_vars

InitCache ==
    /\ InitBase
    /\ now = 0
    /\ written = None
    /\ input = RecEmpty

NextCache ==
    \/ \E key \in Keys, value \in Payloads, ttl \in TtlChoices : CSet(key, value, ttl)
    \/ \E key \in Keys : CGet(key)
    \/ \E key \in Keys : CHas(key)
    \/ \E key \in Keys : CDelete(key)
    \/ CClear
    \/ \E rss \in MemoryReadings : CSweep(rss)
    \/ CTick

SpecCache == InitCache /\ [][NextCache]_vars

InitVal ==
    /\ InitBase
    /\ now = 0
    /\ written = None
    /\ input \in ValRecords

SpecVal == InitVal /\ [][Validate]_vars

InitSan ==
    /\ InitBase
    /\ now = 0
    /\ written = None
    /\ input \in SanRecords

SpecSan == InitSan /\ [][Sanitize]_vars

InitScrape ==
    /\ InitBase
    /\ now = 0
    /\ written = None
    /\ input = RecEmpty

NextScrape ==
    \/ ScrapeCall
    \/ Launch(SCHED)
    \/ NewPage
    \/ Setup
    \/ Goto
    \/ Backoff
    \/ WaitForFunction
    \/ ExtraWait
    \/ Evaluate
    \/ PageClose
    \/ ScrapeSettle

SpecScrape == InitScrape /\ [][NextScrape]_vars

InitExtract ==
    /\ InitBase
    /\ now = 0
    /\ written = None
    /\ input \in Documents

NextExtract ==
    \/ ExtractPrimary
    \/ ExtractSecondary
    \/ ExtractRepair

SpecExtract == InitExtract /\ [][NextExtract]_vars

\* the scheduler alone, with start() and stop() called in any order
NextRestart ==
    \/ StartAgain
    \/ Stop
    \/ \E j \in 1..Len(jobs) : CronFire(j)
    \/ Launch(SCHED)
    \/ Source(SCHED)
    \/ SchedFinish
    \/ Tick

SpecRestart == Init /\ [][NextRestart]_vars

----------------------------------------------------------------------------
(* Properties.                                                              *)

RunsInFlight == {o \in Owners : InFlight(o)}

\* C1: single-flight in the scheduler: of all the performDailyScrape calls that
\* overlap one cycle (cron callback, bootstrap), exactly one calls the scraper;
\* a call that finds isRunning set returns without calling it.
C1_SingleFlight ==
    /\ burst.triggers >= 1 => burst.scrapes = 1
    /\ burst.triggers >= 1 <=> isRunning
    /\ isRunning <=> InFlight(SCHED)

\* a second trigger arrived while the cycle was in flight and was dropped
C1_Witness == burst.triggers >= 2 /\ burst.scrapes = 1 /\ InFlight(SCHED)

\* C2: at most one scrapeWalrusData run is in flight at any time in the whole
\* process, scheduler cycles and cache-miss requests included.
C2_OnePipelineAtATime == Cardinality(RunsInFlight) <= 1

\* C3: every value stored under the tracked key passes validateDataStrict, and
\* no response serves a record that fails it.
C3_CacheHoldsStrictOnly ==
    /\ \A i \in 1..Len(cache) :
           cache[i].key = TRACKED => validateDataStrict(cache[i].value)
    /\ (resp.status = 200) => validateDataStrict(Val(resp.data))

\* a get of the probed key by a caller, as a step
ProbeGet == CGet(PROBE)

Elapsed == now - Val(written).setAt

\* C4 (as stated): after set(k, v, ttl), with no later delete(k), clear() or
\* set(k, ...) by a caller, every get(k) before the TTL has elapsed returns v,
\* whatever sets on other keys and sweeps happened in between; after the TTL
\* has elapsed get(k) returns null and has(k) does not report the key.
C4_TtlContract ==
    [][(ProbeGet /\ Has(written)) =>
          /\ (Elapsed < Val(written).ttl) => lastOp'.value = Some(Val(written).value)
          /\ (Elapsed > Val(written).ttl) =>
                 /\ lastOp'.value = None
                 /\ CacheHas(CacheState(cache', timestamps'), PROBE, now') # "true"]_vars

\* C4 (amended): ... every get(k) before the TTL has elapsed returns v if k is
\* still stored, and null if k was evicted in between (count cap, memory
\* pressure of a set, sweep); after the TTL has elapsed get(k) returns null and
\* has(k) does not report the key.
C4_TtlContractUnlessEvicted ==
    [][(ProbeGet /\ Has(written)) =>
          /\ (Elapsed < Val(written).ttl) =>
                 lastOp'.value = IF PROBE \in CacheKeys(Here)
                                 THEN Some(Val(written).value) ELSE None
          /\ (Elapsed > Val(written).ttl) =>
                 /\ lastOp'.value = None
                 /\ CacheHas(CacheState(cache', timestamps'), PROBE, now') # "true"]_vars

\* a get returned the value set, with other keys stored next to it
C4_Witness ==
    /\ lastOp.op = "get" /\ lastOp.key = PROBE
    /\ Has(written) /\ lastOp.value = Some(Val(written).value)
    /\ Elapsed < Val(written).ttl
    /\ Len(cache) >= 2

\* C5: immediately after every set returns the cache holds at most maxSize
\* entries.
C5_CountCap == lastOp.op = "set" => Len(cache) <= maxSize

\* a new key was set into a full cache
C5_Witness == lastOp.op = "set" /\ lastOp.atCap /\ Len(cache) = maxSize

\* C6: immediately after every set returns the estimated sizes of the entries
\* sum to at most maxMemoryUsage.
C6_MemoryBudget == lastOp.op = "set" => getCurrentMemoryUsage(Here) <= maxMemoryUsage

\* C7: a record that passes validateDataStrict passes validateData.
C7_StrictImpliesLoose == output.done => (output.strict => output.loose)

\* the boundary record: percentage exactly 0, no used/total, not realtime
C7_Witness ==
    /\ output.done /\ output.strict
    /\ input.dataSource # "realtime"
    /\ CapField(input, "percentage") = Some(0)
    /\ ~Has(CapField(input, "used")) /\ ~Has(CapField(input, "total"))

\* C8 (as stated): when start() is called on an empty cache, a complete refresh
\* cycle has run by the time it returns: isRunning is false, lastRun is set and
\* the pipeline has finished.
C8_BootstrapSynchronous ==
    (startObs.called /\ startObs.emptyAtCall) =>
        (~startObs.isRunning /\ Has(startObs.lastRun) /\ ~startObs.inFlight)

\* C8 (amended): when start() is called on an empty cache, a refresh cycle is in
\* flight when it returns: isRunning is true, lastRun is set and the pipeline
\* has not finished.
C8_BootstrapInFlightAtReturn ==
    (startObs.called /\ startObs.emptyAtCall) =>
        (startObs.isRunning /\ Has(startObs.lastRun) /\ startObs.inFlight)

\* start() found the cache empty and began the bootstrap cycle itself
C8_Witness ==
    startObs.called /\ startObs.emptyAtCall /\ ~startObs.busyAtCall /\ startObs.isRunning

\* the bootstrap cycle ends with a record
BootstrapEndsWithRecord ==
    /\ pipe[SCHED].by = "bootstrap"
    /\ InFlight(SCHED) /\ ~InFlight(SCHED)'
    /\ burst'.ended = "record"

\* C9: when the bootstrap cycle completes with an accepted record, the cache
\* holds exactly one entry, under the tracked key, with dataSource realtime or
\* fallback, and nextRun is a UTC midnight strictly after the current time and
\* at most one day ahead.
C9_StartupScenario ==
    [][BootstrapEndsWithRecord =>
          /\ Len(cache') = 1
          /\ cache'[1].key = TRACKED
          /\ cache'[1].value.dataSource \in {"realtime", "fallback"}
          /\ Has(nextRun')
          /\ IsMidnight(Val(nextRun'))
          /\ Val(nextRun') > now'
          /\ Val(nextRun') <= now' + DayLen]_vars

\* the bootstrap cycle has completed and left its record in the cache
C9_Witness ==
    /\ startObs.called /\ startObs.emptyAtCall
    /\ ~isRunning /\ burst.ended = "record"
    /\ resp = NoResponse
    /\ Len(cache) = 1 /\ cache[1].value.dataSource = "fallback"
    /\ Has(nextRun) /\ Val(nextRun) > now

\* C10: every cycle that sets isRunning eventually clears it and recomputes
\* nextRun, whether the pipeline returned a record, returned nothing or threw;
\* isRunning is never left set once the cycle has ended.
C10_CleanupAlwaysRuns ==
    /\ isRunning ~> ~isRunning
    /\ [][(isRunning /\ ~isRunning') => nextRun' = Some(NextMidnight(now'))]_vars
    /\ [](~InFlight(SCHED) => ~isRunning)

\* a cycle whose pipeline threw has been cleaned up
C10_Witness == burst.ended = "threw" /\ ~isRunning /\ Has(nextRun) /\ Has(lastRun)

\* a performDailyScrape call by the cron callback that finds isRunning set
DroppedTrigger == isRunning /\ \E j \in 1..Len(jobs) : CronFire(j)

\* C11: a performDailyScrape call that arrives while isRunning is true changes
\* neither lastRun, nextRun, isRunning, the cache nor the run in flight, and is
\* not queued: a cycle begins only in the step of a trigger (start() or a cron
\* callback) that finds isRunning false, never in the wake of a cycle's end.
C11_DroppedTriggerIsNoOp ==
    /\ [][DroppedTrigger =>
             UNCHANGED <<lastRun, nextRun, isRunning, cache, timestamps, pipe>>]_vars
    /\ [][(~InFlight(SCHED) /\ InFlight(SCHED)') =>
             (~isRunning /\ (Start \/ \E j \in 1..Len(jobs) : CronFire(j)))]_vars
    /\ [][SchedFinish => (~isRunning' /\ ~InFlight(SCHED)')]_vars

\* a cycle that dropped a trigger has ended and no cycle is in flight
C11_Witness == burst.dropped >= 1 /\ ~isRunning /\ ~InFlight(SCHED)

\* C12: in every state after start(), nextRun is the next upcoming 00:00 UTC
\* boundary: a midnight strictly later than the current time, also while a cycle
\* that began at midnight is in flight and when a midnight trigger was dropped.
C12_NextRunIsUpcoming ==
    startObs.called =>
        (Has(nextRun) /\ IsMidnight(Val(nextRun)) /\ Val(nextRun) > now)

\* C13: scrapeWalrusData never lets an exception cross to its caller: no cycle
\* of the scheduler sees its scraper call throw, and no request handler does
\* (the handler answers 500 from its catch block).
C13_PipelineNeverThrows == burst.ended # "threw" /\ resp.status # 500

C15_WinnerPassesStrict ==
    \A o \in Owners :
        (pipe[o].pc = "close" /\ Has(pipe[o].result)) =>
            (pipe[o].i \in 1..NumUrls /\ validateDataStrict(Val(pipe[o].result)))

\* a numeric field that is absent or within lo..hi
AbsentOrWithin(o, lo, hi) == ~Has(o) \/ (Val(o) >= lo /\ Val(o) <= hi)

\* C16: every numeric field present in the output of validateAndSanitizeData
\* lies in its documented range: prices in 1,000..100,000, the capacity
\* percentage in 0..100, the epoch number in 1..10,000.
C16_SanitizedInRange ==
    (output.done /\ IsObject(output.clean)) =>
        /\ AbsentOrWithin(output.clean.storagePrice, Num(1000), Num(100000))
        /\ AbsentOrWithin(output.clean.writePrice, Num(1000), Num(100000))
        /\ AbsentOrWithin(CapField(output.clean, "percentage"), Num(0), Num(100))
        /\ AbsentOrWithin(output.clean.epoch, Num(1), Num(10000))

\* C17: validateAndSanitizeData applied to its own output returns that output,
\* field by field.
C17_SanitizeIdempotent == output.done => output.twice = output.clean

\* the handler of a cache-miss request ends with no fresh record to serve, its
\* scraper call having returned
EndsWithoutFresh(r) ==
    /\ InFlight(r) /\ ~InFlight(r)'
    /\ resp'.source # "fresh" /\ resp'.status # 500

\* C18: when GET /walrus-data finds no cached value and the scrape yields no
\* record that passes the sanitizer and the strict validator, the request ends
\* with status 503, nothing is written to the cache, and no constant record is
\* returned or cached.
C18_UnavailableNotFabricated ==
    [][\A r \in Reqs :
          EndsWithoutFresh(r) =>
              /\ resp'.status = 503
              /\ ~Has(resp'.data)
              /\ UNCHANGED cacheVars]_vars

\* C19: stop() cancels only the recurring trigger: once the trigger is cancelled
\* no cron callback fires and no cycle begins (short of the bootstrap of a new
\* start()); stop() itself leaves the cycle in
\* flight, isRunning and the cache alone, and a cycle in flight when stop() is
\* called still runs to its end and resets isRunning.
C19_StopCancelsTriggerOnly ==
    /\ [][TriggerCancelled =>
             /\ ~(\E j \in 1..Len(jobs) : CronFire(j))
             /\ (~InFlight(SCHED) /\ InFlight(SCHED)') => Start]_vars
    /\ [][Stop => UNCHANGED <<isRunning, lastRun, nextRun, pipe, cache, timestamps>>]_vars
    /\ (TriggerCancelled /\ isRunning) ~> ~isRunning

\* a cycle ended after stop() and stored its record
C19_Witness ==
    /\ burst.stoppedAtEnd /\ burst.ended = "record"
    /\ ~isRunning /\ TRACKED \in CacheKeys(Here)

\* key k is stored and its expiresAt has passed
Expired(k) ==
    LET i == Find(Here, k) IN IF i = 0 THEN FALSE ELSE now > cache[i].expiresAt

\* C20: once the TTL of a stored key k has elapsed every read reports it absent:
\* has(k) does not report it, getTimestamp(k) returns nothing, and /last-update
\* reports cacheStatus 'empty' for the tracked key.
C20_ExpiredReadsAbsent ==
    \A k \in Keys :
        Expired(k) =>
            /\ CacheHas(Here, k, now) # "true"
            /\ ~Has(CacheGetResult(Here, k, now))
            /\ ~Has(getTimestamp(Here, k))
            /\ (k = TRACKED => cacheStatus(Here) = "empty")

\* a refresh cycle begins: the step of the trigger that sets isRunning
CycleBegins == ~isRunning /\ isRunning'

\* a refresh cycle ends without a record: its scraper call returned null or threw
CycleFails == SchedFinish /\ burst'.ended \in {"nothing", "threw"}

TrackedStored == TRACKED \in CacheKeys(Here)

\* C21: a refresh cycle deletes the cached value of the tracked key before it
\* runs the pipeline and calls the pipeline exactly once (the scraper is called
\* only in the step that begins a cycle, never again inside it); a cycle whose
\* pipeline returns nothing or throws writes nothing, and the tracked key
\* becomes stored again only by the end of a cycle or of a cache-miss request.
C21_FailedCycleWritesNothing ==
    /\ [][CycleBegins =>
             /\ ~TrackedStored'
             /\ burst'.scrapes = 1
             /\ pipe'[SCHED].pc = "launch"]_vars
    /\ [][(pipe[SCHED].pc # "launch" /\ pipe'[SCHED].pc = "launch") => CycleBegins]_vars
    /\ [][CycleFails => UNCHANGED cacheVars]_vars
    /\ [][(~TrackedStored /\ TrackedStored') =>
             \/ SchedFinish /\ burst'.ended = "record"
             \/ \E r \in Reqs : InFlight(r) /\ ~InFlight(r)']_vars

\* start() found a cached value, the midnight cycle deleted it and ended
\* without a record: the tracked key is absent
C21_Witness ==
    /\ startObs.called /\ ~startObs.emptyAtCall
    /\ burst.ended = "nothing" /\ ~isRunning
    /\ lastRun = Some(DayLen)
    /\ ~TrackedStored

\* C22 (as stated): lastRun and nextRun change only in the cleanup step of a
\* cycle; while isRunning is true neither is modified, and a reader that sees
\* isRunning = true sees the lastRun of the previous completed cycle (the step
\* that sets isRunning leaves lastRun alone).
C22_ChangesOnlyInCleanup ==
    /\ [][(lastRun' # lastRun) => SchedFinish]_vars
    /\ [][(isRunning /\ isRunning') => UNCHANGED <<lastRun, nextRun>>]_vars
    /\ [][CycleBegins => lastRun' = lastRun]_vars

\* C22 (amended): nextRun changes only in start() and in the cleanup step of a
\* cycle; lastRun is stamped with the current time in the very step that sets
\* isRunning, at the beginning of the cycle, and changes in no other step, so
\* while isRunning stays true neither lastRun nor nextRun is modified by the
\* cycle, and a reader that sees isRunning = true sees the lastRun of the
\* cycle in flight.
C22_LastRunStampedAtBegin ==
    /\ [][CycleBegins => lastRun' = Some(now)]_vars
    /\ [][(lastRun' # lastRun) => CycleBegins]_vars
    /\ [][(nextRun' # nextRun) => (Start \/ SchedFinish)]_vars
    /\ [][(isRunning /\ isRunning') => lastRun' = lastRun]_vars
    /\ [](isRunning => Has(lastRun))

\* the midnight cycle is in flight after an earlier cycle has completed: the
\* reader sees isRunning and the stamp of the cycle in flight
C22_Witness ==
    /\ isRunning /\ burst.ended # "none"
    /\ lastRun = Some(DayLen) /\ now > DayLen

\* a caller's set of key to value, as a step: the step leaves key stored with
\* value, fresh access metadata and the timestamp of the set
SetStep(key, value) ==
    /\ lastOp'.op = "set"
    /\ key \in DOMAIN timestamps'
    /\ timestamps'[key] = now
    /\ \E i \in 1..Len(cache') : cache'[i].key = key /\ cache'[i].value = value
    /\ \E ttl \in TtlChoices : CSet(key, value, ttl)

\* the cache state after the step
After == CacheState(cache', timestamps')

\* the entries of S stored under the keys of K, in order
Entries(S, K) == SelectSeq(S.cache, LAMBDA e : e.key \in K)

\* the set finds the memory budget exceeded, after the count cap was applied
Pressure(S1, value) ==
    getCurrentMemoryUsage(S1) + estimateMemoryUsage(value) > maxMemoryUsage

\* C23: a set issued when the entry count is >= maxSize removes exactly one
\* entry before it inserts, an entry whose lastAccess is the smallest of all,
\* and leaves the others as they were; a set issued below maxSize removes
\* nothing for the count cap; what the set leaves stored is what the count cap
\* left plus the key set, minus what memory pressure removed.
C23_CountCapEvictsOneOldest ==
    [][\A key \in Keys, value \in Payloads :
          SetStep(key, value) =>
              LET S1 == AfterCountCap(Here)
                  removed == CacheKeys(Here) \ CacheKeys(S1)
              IN  /\ (Len(cache) >= maxSize) =>
                         /\ Cardinality(removed) = 1
                         /\ \A k \in removed : \A i \in 1..Len(cache) :
                                cache[Find(Here, k)].lastAccess <= cache[i].lastAccess
                         /\ S1.cache = Entries(Here, CacheKeys(Here) \ removed)
                  /\ (Len(cache) < maxSize) => S1 = Here
                  /\ CacheKeys(After) \subseteq CacheKeys(S1) \cup {key}
                  /\ ~Pressure(S1, value) => CacheKeys(After) = CacheKeys(S1) \cup {key}]_vars

\* a new key was set into a full cache and the entry inserted first, read since,
\* is still stored: the entry removed was not the first one inserted
C23_Witness ==
    /\ lastOp.op = "set" /\ lastOp.atCap /\ lastOp.key = "other"
    /\ Len(cache) = maxSize
    /\ cache[1].key = PROBE /\ cache[1].accessCount = 1
    /\ Has(written) /\ cache[1].lastAccess > Val(written).setAt
    /\ cache[2].lastAccess < cache[1].lastAccess

\* C24: when the aggregate size plus the size of the new entry exceeds the
\* budget, entries are removed in ascending accessCount order (none with a
\* higher count goes while one with a lower count stays), the removal stops as
\* soon as the freed size reaches 30% of the aggregate size measured at its
\* start, the entries that stay are untouched, and the new entry is inserted
\* after the eviction, so that it is stored when the set returns.
C24_MemoryPressureEvictsLeastUsed ==
    [][\A key \in Keys, value \in Payloads :
          SetStep(key, value) =>
              LET S1 == AfterCountCap(Here)
                  S2 == evictByMemoryPressure(S1)
                  currentMemory == getCurrentMemoryUsage(S1)
                  kept == CacheKeys(S2)
                  removed == CacheKeys(S1) \ kept
                  count(k) == S1.cache[Find(S1, k)].accessCount
                  size(k) == S1.cache[Find(S1, k)].size
                  freedMemory == SumSizes(Entries(S1, removed))
              IN  Pressure(S1, value) =>
                      /\ \A r \in removed : \A k \in kept : count(r) <= count(k)
                      /\ kept # {} => TargetReached(freedMemory, currentMemory)
                      /\ removed # {} =>
                             \E last \in removed :
                                 /\ \A r \in removed : count(r) <= count(last)
                                 /\ ~TargetReached(freedMemory - size(last), currentMemory)
                      /\ S2.cache = Entries(S1, kept)
                      /\ CacheKeys(After) = kept \cup {key}
                      /\ After.cache[Find(After, key)].value = value
                      /\ After.cache[Find(After, key)].accessCount = 0]_vars

\* a set under memory pressure removed a less used entry and left a more used
\* one next to the new entry (the sizes add up to more than the budget, which
\* a set without eviction never leaves)
C24_Witness ==
    /\ lastOp.op = "set"
    /\ getCurrentMemoryUsage(Here) > maxMemoryUsage
    /\ Len(cache) = 2
    /\ cache[1].accessCount = 1 /\ cache[2].accessCount = 0

\* C25: a get(k) on a live entry increments its accessCount by one, refreshes
\* its lastAccess and changes nothing else (value, expiresAt and size of k,
\* every other entry and the timestamps map stay); a get on an expired entry
\* removes exactly that key from both maps; a get on a missing key changes
\* nothing.
C25_GetTouchesAccessMetadataOnly ==
    [][\A key \in Keys :
          (lastOp'.op = "get" /\ CGet(key)) =>
              LET i == Find(Here, key)
              IN  IF i = 0 THEN UNCHANGED cacheVars
                  ELSE IF now > cache[i].expiresAt
                  THEN /\ cache' = Entries(Here, CacheKeys(Here) \ {key})
                       /\ DOMAIN timestamps' = (DOMAIN timestamps) \ {key}
                       /\ \A k \in DOMAIN timestamps' : timestamps'[k] = timestamps[k]
                  ELSE /\ Len(cache') = Len(cache)
                       /\ \A j \in 1..Len(cache) : j # i => cache'[j] = cache[j]
                       /\ cache'[i] = [cache[i] EXCEPT !.accessCount = @ + 1,
                                                       !.lastAccess = now]
                       /\ UNCHANGED timestamps]_vars

\* a get hit the probed key one tick after it was set, with another key
\* stored: the access is counted, lastAccess is refreshed, expiresAt stands
C25_Witness ==
    /\ lastOp.op = "get" /\ lastOp.key = PROBE /\ Has(lastOp.value)
    /\ Has(written) /\ now > Val(written).setAt
    /\ Len(cache) >= 2
    /\ LET e == cache[Find(Here, PROBE)]
       IN  /\ e.accessCount = 1 /\ e.lastAccess = now
           /\ e.expiresAt = Val(written).setAt + Val(written).ttl
           /\ timestamps[PROBE] = Val(written).setAt

\* the monitor fires: the reading, rounded to whole megabytes, is above the mark
MonitorFires(rss) == memoryMB(rss) > HighWaterMB

\* what every sweep leaves: no entry inserted or modified, no timestamp either
SweepOnlyRemoves ==
    /\ cache' = Entries(Here, CacheKeys(After))
    /\ DOMAIN timestamps' \subseteq DOMAIN timestamps
    /\ \A k \in DOMAIN timestamps' : timestamps'[k] = timestamps[k]

\* C26 (as stated): a sweep runs the memory-pressure eviction if and only if
\* the process memory exceeds 400 MB; it never inserts or modifies entries, and
\* when it fires on a single entry of positive size it removes that entry,
\* whatever its TTL.
C26_SweepAboveMark ==
    [][\A rss \in MemoryReadings :
          (lastOp'.op = "sweep" /\ CSweep(rss)) =>
              /\ IF rss > HighWaterMB * MB
                 THEN After = evictByMemoryPressure(Here)
                 ELSE UNCHANGED cacheVars
              /\ SweepOnlyRemoves
              /\ (rss > HighWaterMB * MB /\ Len(cache) = 1 /\ cache[1].size > 0) =>
                     cache' = <<>>]_vars

\* C26 (amended): a sweep runs the memory-pressure eviction if and only if the
\* process memory, rounded to the nearest whole megabyte, exceeds 400 (that is,
\* from 400.5 MB on); it never inserts or modifies entries, and when it fires
\* on a single entry of positive size it removes that entry, whatever its TTL.
C26_SweepAboveRoundedMark ==
    [][\A rss \in MemoryReadings :
          (lastOp'.op = "sweep" /\ CSweep(rss)) =>
              /\ IF MonitorFires(rss)
                 THEN After = evictByMemoryPressure(Here)
                 ELSE UNCHANGED cacheVars
              /\ SweepOnlyRemoves
              /\ (MonitorFires(rss) /\ Len(cache) = 1 /\ cache[1].size > 0) =>
                     cache' = <<>>]_vars

\* a sweep found the tracked key alone in the cache, its TTL not elapsed, and
\* removed it
C26_Witness ==
    /\ lastOp.op = "sweep" /\ lastOp.held = 1
    /\ cache = <<>> /\ timestamps = NoTimestamps
    /\ Has(written) /\ Elapsed < Val(written).ttl

\* the sources the run has dealt with
TriedSources == 1..Len(trail.tried)

\* C27: for one source, a failing navigation is retried up to 3 times after
\* the initial attempt (4 page.goto calls when all fail), with a 2-second wait
\* before each retry and none after the last failure; the first successful
\* attempt ends the loop, and the navigation error surfaces as the source's
\* failure only when every attempt has failed.
C27_NavigationRetryProtocol ==
    /\ page.gotoCalls <= 1 + NavRetries
    /\ page.pc = "goto" => page.waitedMs = BackoffMs * page.gotoCalls
    /\ page.pc \in {"content", "settle", "evaluate"} =>
           page.waitedMs = BackoffMs * (page.gotoCalls - 1)
    /\ (page.pc = "closing" /\ page.pending.cause = "navigation") =>
           /\ page.gotoCalls = 1 + NavRetries
           /\ page.waitedMs = BackoffMs * NavRetries
    /\ \A i \in TriedSources :
           trail.tried[i].cause = "navigation" =>
               /\ trail.tried[i].gotoCalls = 1 + NavRetries
               /\ trail.tried[i].waitedMs = BackoffMs * NavRetries

\* the loop over the sources has dealt with one more source
SourceEnds == Len(trail'.tried) = Len(trail.tried) + 1

\* what the loop does after a source that failed or whose record was rejected
ProceedsToNext ==
    IF pipe[SCHED].i < NumUrls
    THEN pipe'[SCHED].pc = "source" /\ pipe'[SCHED].i = pipe[SCHED].i + 1
    ELSE pipe'[SCHED].pc = "close" /\ pipe'[SCHED].result = None

AllTriedNoneAccepted ==
    /\ Len(trail.tried) = NumUrls
    /\ \A i \in TriedSources : trail.tried[i].outcome # "accepted"

\* C28 (as stated): when a source fails or its record is rejected the pipeline
\* proceeds to the next source, and the pipeline returns null only after every
\* source has been tried and none was accepted.
C28_NullOnlyAfterAllSources ==
    /\ [][(SourceEnds /\ trail'.tried[Len(trail'.tried)].outcome # "accepted") =>
             ProceedsToNext]_vars
    /\ [](trail.settled = "nothing" => AllTriedNoneAccepted)

\* C28 (amended): when a source fails or its record is rejected the pipeline
\* proceeds to the next source; the pipeline returns null either after every
\* source has been tried and none was accepted, or when the browser could not
\* be launched, in which case no source is tried at all.
C28_NullAfterAllSourcesOrNoLaunch ==
    /\ [][(SourceEnds /\ trail'.tried[Len(trail'.tried)].outcome # "accepted") =>
             ProceedsToNext]_vars
    /\ [](trail.settled = "nothing" =>
             \/ AllTriedNoneAccepted
             \/ trail.at = "launch" /\ trail.tried = <<>>)

\* the first source failed for want of a successful navigation, the second
\* one was accepted and its record returned
C28_Witness ==
    /\ trail.settled = "record"
    /\ Len(trail.tried) = 2
    /\ trail.tried[1].outcome = "failed" /\ trail.tried[1].cause = "navigation"
    /\ trail.tried[2].outcome = "accepted"

\* C29: a timeout of the wait for content is not an error: when the wait is
\* over, timed out or not, scrapeFromUrl goes on to the extractor and the
\* source is not ended; a source whose wait timed out had its extractor run,
\* and if it failed, it failed on the extraction or on page.close.
C29_ContentTimeoutIsNotAnError ==
    /\ [][(page.pc = "content" /\ page'.pc # "content") =>
             (page'.pc = "settle" /\ UNCHANGED <<pipe, trail>>)]_vars
    /\ [](page.contentTimedOut => page.pc \in {"settle", "evaluate", "closing"})
    /\ []((page.contentTimedOut /\ page.pc = "closing") => page.evaluated)
    /\ [](\A i \in TriedSources :
             trail.tried[i].contentTimedOut =>
                 /\ trail.tried[i].evaluated
                 /\ trail.tried[i].cause \in {"none", "evaluate", "close"})

\* the wait for content timed out at the first source, and the record its
\* extractor returned was accepted and returned by the run
C29_Witness ==
    /\ trail.settled = "record"
    /\ Len(trail.tried) = 1
    /\ trail.tried[1].contentTimedOut /\ trail.tried[1].outcome = "accepted"
    /\ trail.result = Some(RecFull)

\* a field that is present and greater than 0
Positive(o) == Has(o) /\ Val(o) > 0

\* a field that is present and not 0
NonZero(o) == Has(o) /\ Val(o) # 0

One(b) == IF b THEN 1 ELSE 0

\* how many of the four conditions of the loose validator record r satisfies
SatisfiedConditions(r) ==
    One(Positive(r.storagePrice))
    + One(Positive(r.writePrice))
    + One(\/ NonZero(CapField(r, "used")) /\ NonZero(CapField(r, "total"))
          \/ Positive(CapField(r, "percentage")))
    + One(Positive(r.epoch))

\* C30: validateData(r) is true exactly when the number of satisfied
\* conditions among storagePrice.value > 0, writePrice.value > 0, capacity
\* known (used and total both non-zero, or percentage > 0) and
\* epoch.number > 0 is at least 2 if r.dataSource is 'realtime' and at least 3
\* for every other provenance.
C30_LooseValidatorThreshold ==
    output.done =>
        (output.loose <=>
            SatisfiedConditions(input) >= (IF input.dataSource = "realtime" THEN 2 ELSE 3))

\* a realtime record that satisfies exactly two conditions, one of them the
\* capacity by used and total alone, passes the loose validator
C30_Witness ==
    /\ output.done /\ output.loose
    /\ input.dataSource = "realtime"
    /\ SatisfiedConditions(input) = 2
    /\ NonZero(CapField(input, "used")) /\ NonZero(CapField(input, "total"))
    /\ ~Positive(CapField(input, "percentage"))
    /\ Positive(input.epoch)

\* a field that is present with a value from lo to hi
PresentWithin(o, lo, hi) == o # None /\ ~(Val(o) < lo) /\ ~(Val(o) > hi)

\* all four fields of record r are present and within the documented ranges
AllFourInRange(r) ==
    /\ PresentWithin(r.storagePrice, Num(1000), Num(100000))
    /\ PresentWithin(r.writePrice, Num(1000), Num(100000))
    /\ r.storageCapacity # None
    /\ PresentWithin(Val(r.storageCapacity).percentage, Num(0), Num(100))
    /\ PresentWithin(r.epoch, Num(1), Num(10000))

----------------------------------------------------------------------------
(* The extractor: what a document offers, read off the document itself.     *)

\* an element of the document carries the label and a number
Labelled(label) ==
    \E i \in 1..Len(input.elements) :
        input.elements[i].label = label /\ input.elements[i].number # None

\* the first strategy fills both prices from two matches, the second strategy
\* fills a price from an element labelled for it
StoragePriceFound ==
    input.body /\ (Len(Matches(input.text, "price")) >= 2 \/ Labelled("FROST/MiB/EPOCH"))

WritePriceFound ==
    input.body /\ (Len(Matches(input.text, "price")) >= 2 \/ Labelled("FROST/MiB"))

CapacityFound ==
    /\ input.body
    /\ \/ \E i \in 1..Len(input.text) : input.text[i].kind \in {"ratio", "percent"}
       \/ \E i \in 1..Len(input.elements) : input.elements[i].percent # None

Returned == output # NoVerdict /\ output.stage = "returned"

\* C32: the extractor substitutes the constant prices 11000 and 20000 and marks
\* the record 'fallback' exactly when a capacity was found and neither price
\* was found by either strategy; in every other case, a document with nothing
\* to find and a document with one price included, the record stays 'realtime'
\* and a price that was not found stays unset; the constants lie in the
\* strict validator's price range.
C32_RepairExactlyWhenCapacityWithoutPrices ==
    Returned =>
        LET data == output.data
        IN  IF CapacityFound /\ ~StoragePriceFound /\ ~WritePriceFound
            THEN /\ data.dataSource = "fallback"
                 /\ data.storagePrice = Some(Num(11000))
                 /\ data.writePrice = Some(Num(20000))
                 /\ PresentWithin(data.storagePrice, Num(1000), Num(100000))
                 /\ PresentWithin(data.writePrice, Num(1000), Num(100000))
            ELSE /\ data.dataSource = "realtime"
                 /\ ~StoragePriceFound => data.storagePrice = None
                 /\ ~WritePriceFound => data.writePrice = None
                 /\ ~CapacityFound => data.storageCapacity = None
                 /\ StoragePriceFound => data.storagePrice # None
                 /\ WritePriceFound => data.writePrice # None

\* a capacity ratio and a single price match, which fills no price: the
\* constants are returned
C32_Witness ==
    /\ Returned
    /\ output.data.dataSource = "fallback"
    /\ output.data.storagePrice = Some(Num(11000))
    /\ Len(Matches(input.text, "price")) = 1
    /\ Len(Matches(input.text, "ratio")) = 1
    /\ input.elements = <<>>

\* the positions of the price matches in the text
PricePositions == {i \in 1..Len(input.text) : input.text[i].kind = "price"}

First(S) == CHOOSE i \in S : \A j \in S : i <= j

\* the prices are the first two price matches of the text, in document order,
\* or unset when the text has fewer than two
PositionalPrices(data) ==
    IF Cardinality(PricePositions) >= 2
    THEN LET first == First(PricePositions)
             second == First(PricePositions \ {first})
         IN  /\ data.storagePrice = Some(Num(parseInt(input.text[first].display)))
             /\ data.writePrice = Some(Num(parseInt(input.text[second].display)))
    ELSE data.storagePrice = None /\ data.writePrice = None

\* the scenario: two price occurrences, the first "11,000 FROST / MB", then
\* "644 / 4,167 TB" and "Epoch 150"
ScenarioText ==
    <<Price(<<11, 0>>), Price(<<20, 0>>), Ratio(<<644>>, <<4, 167>>), EpochText(150)>>

ScenarioRecord(pct) ==
    MkRecord(Some(Num(11000)), Some(Num(20000)),
             Some(MkCapacity(Some(Num(644)), Some(Num(4167)), Some(pct))),
             Some(Num(150)), "realtime")

RecognisedSources == {"realtime", "fallback", "estimated", "cached"}

\* C34: the sanitizer's output dataSource equals the input dataSource when it
\* is one of realtime, fallback, estimated and cached, and is 'unknown' for
\* every other or missing value.
C34_ProvenanceNormalised ==
    output.done /\ IsObject(input) =>
        output.clean.dataSource =
            IF input.dataSource \in RecognisedSources THEN input.dataSource ELSE "unknown"

----------------------------------------------------------------------------
(* The cache's two maps.                                                    *)

\* C35: in every reachable state, after any sequence of set, get, delete,
\* clear, count eviction, memory eviction and sweep, the keys of the entry map
\* are the keys of the timestamps map, so getTimestamp(k) is defined exactly
\* when an entry for k is stored.
C35_MapsInStep ==
    /\ CacheKeys(Here) = DOMAIN timestamps
    /\ \A k \in Keys : getTimestamp(Here, k) # None <=> Find(Here, k) # 0

\* a sweep has evicted some entries and left others
C35_Witness ==
    /\ lastOp.op = "sweep"
    /\ lastOp.held > Len(cache)
    /\ Len(cache) >= 1
    /\ DOMAIN timestamps = CacheKeys(Here)
    /\ Cardinality(DOMAIN timestamps) = Len(cache)

\* the value fits the memory budget next to everything that is stored
Fits(value) ==
    getCurrentMemoryUsage(Here) + estimateMemoryUsage(value) <= maxMemoryUsage

\* the step replaced the entry of key: new value, new expiresAt, accessCount 0
Replaced(key, value) ==
    LET e == After.cache[Find(After, key)]
    IN  /\ e.value = value
        /\ e.accessCount = 0
        /\ \E ttl \in TtlChoices : e.expiresAt = now + TtlTicks(ttl)

\* C36: a set on a key that is already stored replaces the key's entry (new
\* value, new expiresAt, accessCount 0) and, when the new value fits the memory
\* budget, removes no other key and leaves the entry count unchanged, even
\* when the cache is at its count cap.
C36_OverwriteDoesNotEvict ==
    [][\A key \in Keys, value \in Payloads :
          SetStep(key, value) /\ key \in CacheKeys(Here) =>
              /\ Replaced(key, value)
              /\ Fits(value) =>
                     /\ CacheKeys(After) = CacheKeys(Here)
                     /\ Len(cache') = Len(cache)]_vars

----------------------------------------------------------------------------
(* The scheduler's triggers.                                                *)

\* the cron tasks that are registered and not stopped
Registered == {j \in 1..Len(jobs) : jobs[j].running}

\* the last call among start() and stop() was stop()
StoppedLast == cronJob # 0 /\ ~jobs[cronJob].running

\* C37: for any sequence of start() and stop() calls at most one daily trigger
\* is registered at a time, and after the last stop() no registered trigger
\* fires a refresh cycle: a second start() without stop() leaves no earlier
\* trigger behind.
C37_AtMostOneTrigger ==
    /\ [](Cardinality(Registered) <= 1)
    /\ [][StoppedLast => ~(\E j \in 1..Len(jobs) : CronFire(j))]_vars

----------------------------------------------------------------------------
(* The pages and the browser of a scrapeWalrusData call.                    *)

\* C38: on every path through scrapeFromUrl (success, navigation failure
\* after the last attempt, extraction error) the page it opened is closed
\* before control leaves it, and on every path through scrapeWalrusData the
\* launched browser is closed before it returns: whenever no scrapeFromUrl
\* call is in flight no page is open, and whenever no scrapeWalrusData call is
\* in flight no page and no browser is open.
C38_ResourcesReleased ==
    /\ page.pc = "none" => trail.openPages = 0
    /\ ~InFlight(SCHED) => trail.openPages = 0 /\ ~trail.browserLeftOpen

====
